---- MODULE Spec2Model ----
(***************************************************************************)
(* A model of mca-analyzer: the chunk cache (ChunkLoader), the point       *)
(* query, the palette and its bit width, the block codec (ChunkSection),   *)
(* the Area traversal, the composition analysis (CompositionAnalyzer) and  *)
(* the diamond vein flood fill (DiamondVeinAnalyzer).                      *)
(*                                                                         *)
(* Values.  A chunk coordinate is <<cx, cz>>, a block position <<x, y, z>>.*)
(* Option<&str> is a block name or None.  A Palette is its `elements`      *)
(* vector (a sequence of names, id = index - 1).  A BlocksArray is kept    *)
(* sparsely: a function from the array positions that hold a non-zero id   *)
(* to that id; every other position of the 4096 holds 0, as in             *)
(* EMPTY_BLOCKS_ARRAY.                                                     *)
(***************************************************************************)
EXTENDS Integers, Sequences, FiniteSets, TLC

VARIABLES
    world,                  \* the region folder: chunk coordinate -> Chunk
    loaded_chunks,          \* ChunkLoader.loaded_chunks
    recently_loaded_chunks, \* ChunkLoader.recently_loaded_chunks
    calls,                  \* history: the coordinates get_or_load was called on
    ret,                    \* history: what the last operation returned
    aborted,                \* the process panicked
    palette,                \* a Palette under test (its elements)
    width,                  \* the bit width computed for `palette`
    area,                   \* DiamondVeinAnalyzer.area
    chunk_idx,              \* position of analyze() in the Area traversal
    seeds,                  \* target blocks of the current chunk still to visit
    diamond_count,          \* analyze_chunk's local counter
    found_veins,            \* DiamondVeinAnalyzer.found_veins
    vein_count_by_size,     \* DiamondVeinAnalyzer.vein_count_by_size
    vein_count_by_height,   \* DiamondVeinAnalyzer.vein_count_by_height
    diamonds_per_chunk,     \* DiamondVeinAnalyzer.diamonds_per_chunk
    diamond_img,            \* DiamondVeinAnalyzer.diamond_img
    pc,                     \* where analyze() stands: "load" or "scan"
    accepted,               \* history: the veins explore_vein returned, in order
    last,                   \* history: the last seed and what explore_vein returned
    section_nbt,            \* the compound tag of a section under decoding
    packed,                 \* history: the ids packed into section_nbt.BlockStates
    decoded,                \* what ChunkSection::from_nbt returned for section_nbt
    word_vals,              \* what parse_blockstate_val returned for one word
    global_section,         \* what chunk.rs's ChunkSection::from_nbt returned
    iterated,               \* history: what each Area::into_iter yielded
    blockstate_map,         \* CompositionAnalyzer.blockstate_map
    layers,                 \* CompositionAnalyzer.layers
    sections_todo           \* sections of the current chunk still to count

loaderVars == <<world, loaded_chunks, recently_loaded_chunks, calls, ret, aborted>>
paletteVars == <<palette, width>>
veinVars == <<area, chunk_idx, seeds, diamond_count, found_veins, vein_count_by_size,
              vein_count_by_height, diamonds_per_chunk, diamond_img, pc, accepted,
              last>>
codecVars == <<section_nbt, packed, decoded, word_vals, global_section>>
areaVars == <<iterated>>
compVars == <<blockstate_map, layers, sections_todo>>
vars == <<loaderVars, paletteVars, veinVars, codecVars, areaVars, compVars>>

----------------------------------------------------------------------------
(* Program constants *)

CHUNK_SIZE == 16
MAX_LOADED_CHUNKS == 32
MAX_VEIN_SIZE == 16
MIN_ELEM_BITS == 4

DIAMOND_ORES == {"minecraft:diamond_ore", "minecraft:deepslate_diamond_ore"}

AIR == "minecraft:air"
STONE == "minecraft:stone"
DIAMOND == "minecraft:diamond_ore"
DEEPSLATE_DIAMOND == "minecraft:deepslate_diamond_ore"

None == "None"

----------------------------------------------------------------------------
(* Rust integer arithmetic *)

\* a / b on signed integers truncates toward zero (b > 0)
TruncDiv(a, b) == IF a >= 0 THEN a \div b ELSE -((-a) \div b)

\* `v as i8`: keep the low 8 bits, two's complement
AsI8(v) == LET m == v % 256 IN IF m >= 128 THEN m - 256 ELSE m

\* `v as i32`: every integer of the model lies within i32, the cast keeps it
AsI32(v) == v

\* `v as usize % CHUNK_SIZE`: the cast wraps modulo 2^64, a multiple of
\* CHUNK_SIZE, so the remainder is the non-negative remainder of v
AsUsizeModChunk(v) == v % CHUNK_SIZE

Range(s) == {s[i] : i \in DOMAIN s}

Max(a, b) == IF a >= b THEN a ELSE b

----------------------------------------------------------------------------
(* Palette *)

\* Palette::get_state: elements.get(id)
get_state(elements, id) ==
    IF id >= 0 /\ id < Len(elements) THEN elements[id + 1] ELSE None

RECURSIVE CeilLog2From(_, _)
\* the least k >= from with 2^k >= n
CeilLog2From(n, k) == IF 2 ^ k >= n THEN k ELSE CeilLog2From(n, k + 1)

\* f64::log2(n).ceil() as u32: log2(0) is -inf and the cast saturates to 0
CeilLog2AsU32(n) == IF n <= 0 THEN 0 ELSE CeilLog2From(n, 0)

FloorLog2Bits(elements) ==
    LET n == Len(elements)
        c == CeilLog2AsU32(n)
    IN  Max(MIN_ELEM_BITS, IF n > 0 /\ 2 ^ c > n THEN c - 1 ELSE c)

\* Palette::get_elem_bit_size
get_elem_bit_size(elements) == Max(MIN_ELEM_BITS, CeilLog2AsU32(Len(elements)))

\* get_blocks_in_chunk_by_id (main.rs): the width it computes for a palette slice
by_id_width(names) == Max(MIN_ELEM_BITS, CeilLog2AsU32(Len(names)))

----------------------------------------------------------------------------
(* Block codec.  A 64-bit word of the BlockStates array is kept as the 8    *)
(* bytes val.to_le_bytes() gives, least significant first (the value of an  *)
(* i64 itself does not fit the integers of the model).                      *)

WORD_BYTES == 8
WORD_BITS == 64
BLOCKS_PER_SECTION == CHUNK_SIZE * CHUNK_SIZE * CHUNK_SIZE

Min(a, b) == IF a <= b THEN a ELSE b

\* Palette::from_nbt: every entry is pushed; before the first entry, when it
\* is not air, one more element is pushed, and the element pushed is the
\* entry itself
PaletteFromNbt(entries) ==
    IF entries = <<>>
    THEN <<>>
    ELSE (IF entries[1] # AIR THEN <<entries[1]>> ELSE <<>>) \o entries

\* BitReader::endian(Cursor::new(bytes), LittleEndian): `idx` bytes are
\* consumed, `queue` holds the `qbits` bits of the current byte not read yet
NewReader(bytes) == [bytes |-> bytes, idx |-> 0, queue |-> 0, qbits |-> 0]

ReadErr(rd) == [ok |-> FALSE, value |-> 0, reader |-> rd]

RECURSIVE ReaderTake(_, _, _, _)
\* `got` bits of the value are in acc; the rest is taken from the queue, low
\* bits first, a new byte being fetched whenever the queue is empty
ReaderTake(rd, n, acc, got) ==
    IF got = n
    THEN [ok |-> TRUE, value |-> acc, reader |-> rd]
    ELSE IF rd.qbits = 0
    THEN IF rd.idx >= Len(rd.bytes)
         THEN ReadErr(rd)
         ELSE ReaderTake([rd EXCEPT !.idx = rd.idx + 1,
                                    !.queue = rd.bytes[rd.idx + 1],
                                    !.qbits = 8],
                         n, acc, got)
    ELSE LET t == Min(n - got, rd.qbits)
         IN  ReaderTake([rd EXCEPT !.queue = rd.queue \div (2 ^ t),
                                    !.qbits = rd.qbits - t],
                         n, acc + (rd.queue % (2 ^ t)) * (2 ^ got), got + t)

\* reader.read::<u64>(bits): more bits than a u64 holds is an error
ReaderRead(rd, bits) ==
    IF bits > WORD_BITS THEN ReadErr(rd) ELSE ReaderTake(rd, bits, 0, 0)

RECURSIVE ParseLoop(_, _, _)
\* while let Ok(value) = reader.read::<u64>(width) { vec.push(value) }
ParseLoop(rd, width_, vec) ==
    CHOOSE out \in {IF r.ok THEN ParseLoop(r.reader, width_, Append(vec, r.value)) ELSE vec :
                       r \in {ReaderRead(rd, width_)}} : TRUE

\* a decoder that also yields the bits left over at the end of the word
ParseWithLeftover(width_, val) ==
    LET vec == ParseLoop(NewReader(val), width_, <<>>)
        used == Len(vec) * width_
    IN  IF used < WORD_BITS
        THEN Append(vec, ReaderRead([bytes |-> val, idx |-> used \div 8 + 1,
                                     queue |-> val[used \div 8 + 1] \div (2 ^ (used % 8)),
                                     qbits |-> 8 - (used % 8)],
                                    8 - (used % 8)).value)
        ELSE vec

\* parse_blockstate_val
parse_blockstate_val(width_, val) == ParseLoop(NewReader(val), width_, <<>>)

RECURSIVE ParseWords(_, _, _, _)
\* the values of the words lo..hi of the array, in order
ParseWords(block_state_array, width_, lo, hi) ==
    IF lo > hi
    THEN <<>>
    ELSE IF lo = hi
    THEN parse_blockstate_val(width_, block_state_array[lo])
    ELSE ParseWords(block_state_array, width_, lo, (lo + hi) \div 2)
             \o ParseWords(block_state_array, width_, (lo + hi) \div 2 + 1, hi)

\* a decoder that reads every array at the minimum width
GetBlockIdsAtMinWidth(block_state_array, elements) ==
    ParseWords(block_state_array, MIN_ELEM_BITS, 1, Len(block_state_array))

\* get_block_ids_in_chunk
get_block_ids_in_chunk(block_state_array, elements) ==
    ParseWords(block_state_array, get_elem_bit_size(elements), 1, Len(block_state_array))

\* get_blocks_in_chunk: the first 4096 ids overwrite EMPTY_BLOCKS_ARRAY (the
\* result keeps the positions whose id is not 0)
get_blocks_in_chunk(block_state_array, elements) ==
    CHOOSE out \in
        {[i \in {k \in 0..(Min(Len(ids), BLOCKS_PER_SECTION) - 1) : ids[k + 1] # 0} |->
              ids[i + 1]] :
            ids \in {get_block_ids_in_chunk(block_state_array, elements)}} : TRUE

NoSection == [none |-> TRUE, pos |-> <<0, 0, 0>>, palette |-> <<>>, blocks |-> <<>>]

\* ChunkSection::from_nbt.  nbt is the section's compound tag: Palette (the
\* names of its entries, empty when the tag is absent), BlockStates and Y
\* with a flag telling whether the tag is there.
ChunkSectionFromNbt(nbt, x, z) ==
    IF ~nbt.hasBlockStates \/ ~nbt.hasY
    THEN NoSection
    ELSE CHOOSE out \in
             {[none |-> FALSE, pos |-> <<x, nbt.Y, z>>, palette |-> pal,
               blocks |-> get_blocks_in_chunk(nbt.BlockStates, pal)] :
                 pal \in {PaletteFromNbt(nbt.Palette)}} : TRUE

----------------------------------------------------------------------------
(* ChunkSection and Chunk *)

\* BlocksArray::get
BlocksArrayGet(blocks, x, y, z) ==
    LET pos == y * CHUNK_SIZE * CHUNK_SIZE + z * CHUNK_SIZE + x
    IN  IF pos \in DOMAIN blocks THEN blocks[pos] ELSE 0

\* get_coords_from_array_pos: (x, y, z) with x fastest, then z, then y
get_coords_from_array_pos(index) ==
    <<index % CHUNK_SIZE,
      index \div (CHUNK_SIZE * CHUNK_SIZE),
      (index \div CHUNK_SIZE) % CHUNK_SIZE>>

\* what an operation gives when the code panics in it
Panic == "panic"

\* ChunkSection::get_block_at: the three assert!s panic on a coordinate
\* outside the section
get_block_at(section, x, y, z) ==
    IF x >= CHUNK_SIZE \/ y >= CHUNK_SIZE \/ z >= CHUNK_SIZE
    THEN Panic
    ELSE get_state(section.palette, BlocksArrayGet(section.blocks, x, y, z))

\* Chunk::get_section: the section stored at that vertical index, if any
HasSection(chunk, section_index) == section_index \in DOMAIN chunk.sections

get_section(chunk, section_index) == chunk.sections[section_index]

\* Chunk::get_global_pos: the block position of the chunk's origin
get_global_pos(chunk) == <<chunk.pos[1] * CHUNK_SIZE, chunk.pos[2] * CHUNK_SIZE>>

----------------------------------------------------------------------------
(* ChunkLoader.  A loader value is the pair of its two collections. *)

Loader(lc, rlc) == [loaded_chunks |-> lc, recently_loaded_chunks |-> rlc]

\* ChunkLoader::new
NewLoader == Loader(<<>>, <<>>)

\* VecDeque::iter().position(|&el| el == coordinate): the first index, if any
Position(queue, coordinate) ==
    CHOOSE i \in DOMAIN queue :
        /\ queue[i] = coordinate
        /\ \A j \in DOMAIN queue : queue[j] = coordinate => i <= j

\* VecDeque::remove(index)
RemoveAt(queue, index) ==
    SubSeq(queue, 1, index - 1) \o SubSeq(queue, index + 1, Len(queue))

\* ChunkLoader::load_chunk: a coordinate found in the queue moves to its
\* back; a coordinate that is not in the queue is not added
load_chunk(queue, coordinate) ==
    IF coordinate \in Range(queue)
    THEN Append(RemoveAt(queue, Position(queue, coordinate)), coordinate)
    ELSE queue

\* ChunkLoader::unload_chunks: len - MAX_LOADED_CHUNKS times pop_front and
\* remove the popped coordinate from the map
unload_chunks(l) ==
    LET queue == l.recently_loaded_chunks
        n == Len(queue) - MAX_LOADED_CHUNKS
    IN  IF Len(queue) >= MAX_LOADED_CHUNKS
        THEN LET popped == {queue[i] : i \in 1..n}
             IN  Loader([c \in DOMAIN l.loaded_chunks \ popped |-> l.loaded_chunks[c]],
                        SubSeq(queue, n + 1, Len(queue)))
        ELSE l

NoChunk == [pos |-> <<0, 0>>, sections |-> <<>>, missing |-> TRUE]

\* a miss that drops every other cached chunk
InsertChunkAlone(lc, coordinate, chunk) ==
    [c \in {coordinate} |-> chunk]

\* HashMap::insert through the vacant entry
InsertChunk(lc, coordinate, chunk) ==
    [c \in DOMAIN lc \cup {coordinate} |-> IF c = coordinate THEN chunk ELSE lc[c]]

REGION_SIZE == 32

\* RegionPosition::from_chunk_position: the region file that holds a chunk
RegionOf(chunk_x, chunk_z) == <<chunk_x \div REGION_SIZE, chunk_z \div REGION_SIZE>>

\* get_region succeeds: the folder w has the region file of the chunk (the
\* folder has the files of the regions it holds a chunk of)
HasRegion(w, chunk_x, chunk_z) ==
    \E c \in DOMAIN w : RegionOf(c[1], c[2]) = RegionOf(chunk_x, chunk_z)

\* a get_or_load that leaves an entry without chunk behind when it fails
GetOrLoadLeavingHole(l, w, chunk_x, chunk_z) ==
    LET coordinate == <<chunk_x, chunk_z>>
        touched == Loader(l.loaded_chunks,
                          load_chunk(l.recently_loaded_chunks, coordinate))
        l2 == unload_chunks(touched)
    IN  IF coordinate \in DOMAIN l2.loaded_chunks
        THEN [loader |-> l2, panic |-> FALSE, hit |-> TRUE,
              chunk |-> l2.loaded_chunks[coordinate]]
        ELSE IF coordinate \notin DOMAIN w
        THEN [loader |-> Loader(InsertChunk(l2.loaded_chunks, coordinate, NoChunk),
                                l2.recently_loaded_chunks),
              panic |-> TRUE, hit |-> FALSE, chunk |-> NoChunk]
        ELSE [loader |-> Loader(InsertChunk(l2.loaded_chunks, coordinate, w[coordinate]),
                                l2.recently_loaded_chunks),
              panic |-> FALSE, hit |-> FALSE, chunk |-> w[coordinate]]

\* ChunkLoader::get_or_load.  w is the region folder: when it lacks the
\* region file of the coordinate get_region fails, when the region lacks the
\* chunk read_chunk fails, and either expect() panics.
get_or_load(l, w, chunk_x, chunk_z) ==
    LET coordinate == <<chunk_x, chunk_z>>
        touched == Loader(l.loaded_chunks,
                          load_chunk(l.recently_loaded_chunks, coordinate))
        l2 == unload_chunks(touched)
    IN  IF coordinate \in DOMAIN l2.loaded_chunks
        THEN [loader |-> l2, panic |-> FALSE, hit |-> TRUE,
              chunk |-> l2.loaded_chunks[coordinate]]
        ELSE IF ~HasRegion(w, chunk_x, chunk_z)
        THEN [loader |-> l2, panic |-> TRUE, hit |-> FALSE, chunk |-> NoChunk]
        ELSE IF coordinate \notin DOMAIN w
        THEN [loader |-> l2, panic |-> TRUE, hit |-> FALSE, chunk |-> NoChunk]
        ELSE [loader |-> Loader(InsertChunk(l2.loaded_chunks, coordinate, w[coordinate]),
                                l2.recently_loaded_chunks),
              panic |-> FALSE, hit |-> FALSE, chunk |-> w[coordinate]]

\* the section index and chunk coordinate by flooring division
FloorSectionIndex(y) == y \div CHUNK_SIZE

FloorChunkCoord(v) == v \div CHUNK_SIZE

\* the conversions of get_blockstate_at
QueryChunkCoord(v) == TruncDiv(AsI32(v), CHUNK_SIZE)

QuerySectionIndex(y) == TruncDiv(AsI8(y), CHUNK_SIZE)

\* what a point query resolved the position to, and what it returns
QueryResult(r, x, y, z, val) ==
    [loader |-> r.loader, panic |-> r.panic, hit |-> r.hit,
     coord |-> <<QueryChunkCoord(x), QueryChunkCoord(z)>>,
     section_index |-> QuerySectionIndex(y),
     local |-> <<AsUsizeModChunk(x), AsUsizeModChunk(y), AsUsizeModChunk(z)>>,
     val |-> val]

\* ChunkLoader::get_blockstate_at
get_blockstate_at(l, w, x, y, z) ==
    LET r == get_or_load(l, w, QueryChunkCoord(x), QueryChunkCoord(z))
        section_index == QuerySectionIndex(y)
    IN  IF r.panic
        THEN QueryResult(r, x, y, z, None)
        ELSE IF ~HasSection(r.chunk, section_index)
        THEN QueryResult(r, x, y, z, None)
        ELSE CHOOSE out \in
                 {[QueryResult(r, x, y, z, val) EXCEPT !.panic = (val = Panic)] :
                     val \in {get_block_at(get_section(r.chunk, section_index),
                                           AsUsizeModChunk(x), AsUsizeModChunk(y),
                                           AsUsizeModChunk(z))}} : TRUE

----------------------------------------------------------------------------
(* Region folders.  A world is the function from the chunk coordinates the  *)
(* folder holds to the Chunk that Chunk::from_nbt decodes there.  It is     *)
(* built from a sparse voxel map: global position -> palette id.            *)

StdPalette == <<AIR, STONE, DIAMOND, DEEPSLATE_DIAMOND>>

\* the array position BlocksArray::get reads for a global position
ArrayPosOf(p) ==
    (p[2] % CHUNK_SIZE) * CHUNK_SIZE * CHUNK_SIZE
        + (p[3] % CHUNK_SIZE) * CHUNK_SIZE + (p[1] % CHUNK_SIZE)

InSection(p, cx, s, cz) ==
    /\ p[1] \div CHUNK_SIZE = cx
    /\ p[2] \div CHUNK_SIZE = s
    /\ p[3] \div CHUNK_SIZE = cz

\* ChunkSection::from_nbt of a section holding the voxels of vox that lie in it
MakeSection(vox, cx, s, cz) ==
    LET mine == {p \in DOMAIN vox : InSection(p, cx, s, cz)}
    IN  [pos |-> <<cx, s, cz>>,
         palette |-> StdPalette,
         blocks |-> [i \in {ArrayPosOf(p) : p \in mine} |->
                        vox[CHOOSE p \in mine : ArrayPosOf(p) = i]]]

\* Chunk::from_nbt of a chunk with the given section indices
MakeChunk(vox, cx, cz, sectionIndices) ==
    [pos |-> <<cx, cz>>,
     sections |-> [s \in sectionIndices |-> MakeSection(vox, cx, s, cz)]]

MakeWorld(vox, coords, sectionIndices) ==
    [c \in coords |-> MakeChunk(vox, c[1], c[2], sectionIndices)]

----------------------------------------------------------------------------
(* The cache under a long run of get_or_load calls *)

MaxCoords == 34
MaxHits == 1
CacheGridWidth == 6

\* the i-th coordinate of the traversal that drives the cache (Area order:
\* x inner, z outer), starting at a negative corner
CoordAt(i) == <<(i % CacheGridWidth) - 1, (i \div CacheGridWidth) - 1>>

CacheCoords == {CoordAt(i) : i \in 0..(MaxCoords - 1)}

\* one voxel per chunk, at the chunk's origin, its type varying with the chunk
CacheVox ==
    [p \in {<<c[1] * CHUNK_SIZE, 0, c[2] * CHUNK_SIZE>> : c \in CacheCoords} |->
        1 + ((p[1] \div CHUNK_SIZE + p[3] \div CHUNK_SIZE) % 3)]

CacheWorld == MakeWorld(CacheVox, CacheCoords, {0})

NoRet == [op |-> "none", coord |-> <<0, 0>>, pos |-> <<0, 0, 0>>, hit |-> FALSE,
          section_index |-> 0, local |-> <<0, 0, 0>>, val |-> None]

NoWidth == [elem |-> 0, by_id |-> 0]

NoSeed == [kind |-> "none", seed |-> <<0, 0, 0>>, blocks |-> {}, location |-> <<0, 0, 0>>,
           depth |-> 0, steps |-> 0, dead_ends |-> 0, dead_end_kept |-> TRUE]

IdlePalette ==
    /\ palette = <<>>
    /\ width = NoWidth

IdleVein ==
    /\ area = <<0, 0, 0, 0>>
    /\ chunk_idx = 0
    /\ seeds = <<>>
    /\ diamond_count = 0
    /\ found_veins = {}
    /\ vein_count_by_size = <<>>
    /\ vein_count_by_height = <<>>
    /\ diamonds_per_chunk = <<>>
    /\ diamond_img = <<>>
    /\ pc = "idle"
    /\ accepted = <<>>
    /\ last = NoSeed

IdleCodec ==
    /\ section_nbt = <<>>
    /\ packed = <<>>
    /\ decoded = <<>>
    /\ word_vals = <<>>
    /\ global_section = <<>>

IdleArea == iterated = <<>>

IdleComp ==
    /\ blockstate_map = <<>>
    /\ layers = <<>>
    /\ sections_todo = <<>>

IdleRest == IdleCodec /\ IdleArea /\ IdleComp

InitCache ==
    /\ world = CacheWorld
    /\ loaded_chunks = NewLoader.loaded_chunks
    /\ recently_loaded_chunks = NewLoader.recently_loaded_chunks
    /\ calls = <<>>
    /\ ret = NoRet
    /\ aborted = FALSE
    /\ IdlePalette
    /\ IdleVein
    /\ IdleRest

NumDistinct(s) == Cardinality(Range(s))

\* the coordinates the driver may ask for next: the next one of the
\* traversal, or (MaxHits times) again the first or the latest one
CacheInputs ==
    {CoordAt(NumDistinct(calls))}
        \cup IF calls # <<>> /\ Len(calls) - NumDistinct(calls) < MaxHits
             THEN {calls[1], calls[Len(calls)]}
             ELSE {}

\* one call of get_or_load
GetOrLoad(c) ==
    LET r == get_or_load(Loader(loaded_chunks, recently_loaded_chunks), world, c[1], c[2])
    IN  /\ ~aborted
        /\ loaded_chunks' = r.loader.loaded_chunks
        /\ recently_loaded_chunks' = r.loader.recently_loaded_chunks
        /\ calls' = Append(calls, c)
        /\ aborted' = r.panic
        /\ ret' = [NoRet EXCEPT !.op = "get_or_load", !.coord = c, !.hit = r.hit]
        /\ UNCHANGED <<world, paletteVars, veinVars>>
        /\ UNCHANGED <<codecVars, areaVars, compVars>>

CacheGetOrLoad ==
    \E c \in CacheInputs : GetOrLoad(c)

NextCache == CacheGetOrLoad

SpecCache == InitCache /\ [][NextCache]_vars

----------------------------------------------------------------------------
(* Point queries over a small region folder *)

\* ChunkSection::into_iter: the item made for one array index
SectionItem(section, index) ==
    LET chunk_start == <<section.pos[1] * CHUNK_SIZE,
                         section.pos[2] * CHUNK_SIZE,
                         section.pos[3] * CHUNK_SIZE>>
        chunk_pos == get_coords_from_array_pos(index)
        id == IF index \in DOMAIN section.blocks THEN section.blocks[index] ELSE 0
    IN  [chunk_pos |-> chunk_pos,
         global_pos |-> <<chunk_start[1] + chunk_pos[1],
                          chunk_start[2] + chunk_pos[2],
                          chunk_start[3] + chunk_pos[3]>>,
         blockstate |-> get_state(section.palette, id)]

\* the block types that iterating every section of every chunk of w yields
\* with global position p (within a section only one array index can)
IterBlockstatesAt(w, p) ==
    LET secs == UNION {{w[c].sections[s] : s \in DOMAIN w[c].sections} : c \in DOMAIN w}
        items == {SectionItem(sec, ArrayPosOf(p)) : sec \in secs}
    IN  {it.blockstate : it \in {i \in items : i.global_pos = p}}

QueryChunkXZ == {-1, 0}
QueryLocals == {0, 15}
QuerySectionsFull == {-1, 0, 8}
QuerySectionsLow == {0}

QueryCoords == QueryChunkXZ \X QueryChunkXZ

\* the queried positions: the first and last block of either chunk along x,
\* of the sections -1, 0 and 8 along y, and the two blocks next to z = 0
QueryX == {c * CHUNK_SIZE + l : c \in QueryChunkXZ, l \in QueryLocals}
QueryY == {s * CHUNK_SIZE + l : s \in QuerySectionsFull, l \in QueryLocals}
QueryZ == {-1, 0}

QueryPositions == QueryX \X QueryY \X QueryZ

\* a voxel at every queried position, its type varying with the position
QueryVox == [p \in QueryPositions |-> 1 + ((p[1] + 2 * p[2] + 3 * p[3]) % 3)]

QueryWorlds ==
    {MakeWorld(QueryVox, QueryCoords, QuerySectionsFull),
     MakeWorld(QueryVox, QueryCoords, QuerySectionsLow)}

\* coordinates get_or_load is called on directly: the chunks of the folder,
\* one that the region of chunk (0, 0) lacks and one of a region without file
QueryLoadInputs == QueryCoords \cup {<<1, 0>>, <<REGION_SIZE, 0>>}

InitQuery ==
    /\ world \in QueryWorlds
    /\ loaded_chunks = NewLoader.loaded_chunks
    /\ recently_loaded_chunks = NewLoader.recently_loaded_chunks
    /\ calls = <<>>
    /\ ret = NoRet
    /\ aborted = FALSE
    /\ IdlePalette
    /\ IdleVein
    /\ IdleRest

\* one call of get_or_load; the history keeps the last call only
QueryGetOrLoad ==
    \E c \in QueryLoadInputs :
        LET r == get_or_load(Loader(loaded_chunks, recently_loaded_chunks), world,
                             c[1], c[2])
        IN  /\ ~aborted
            /\ loaded_chunks' = r.loader.loaded_chunks
            /\ recently_loaded_chunks' = r.loader.recently_loaded_chunks
            /\ calls' = <<c>>
            /\ aborted' = r.panic
            /\ ret' = [NoRet EXCEPT !.op = "get_or_load", !.coord = c, !.hit = r.hit]
            /\ UNCHANGED <<world, paletteVars, veinVars>>
            /\ UNCHANGED <<codecVars, areaVars, compVars>>

\* one call of get_blockstate_at
QueryGetBlockstateAt ==
    \E p \in QueryPositions :
        LET r == get_blockstate_at(Loader(loaded_chunks, recently_loaded_chunks), world,
                                   p[1], p[2], p[3])
        IN  /\ ~aborted
            /\ loaded_chunks' = r.loader.loaded_chunks
            /\ recently_loaded_chunks' = r.loader.recently_loaded_chunks
            /\ calls' = <<r.coord>>
            /\ aborted' = r.panic
            /\ ret' = [op |-> "get_blockstate_at", coord |-> r.coord, pos |-> p,
                       hit |-> r.hit, section_index |-> r.section_index,
                       local |-> r.local, val |-> r.val]
            /\ UNCHANGED <<world, paletteVars, veinVars>>
            /\ UNCHANGED <<codecVars, areaVars, compVars>>

NextQuery == QueryGetOrLoad \/ QueryGetBlockstateAt

SpecQuery == InitQuery /\ [][NextQuery]_vars

----------------------------------------------------------------------------
(* The bit width of a palette *)

MaxPaletteLen == 258

\* a section palette of n entries (section palettes may repeat a name)
PaletteOfLen(n) == [i \in 1..n |-> IF i = 1 THEN AIR ELSE STONE]

IdleLoader ==
    /\ world = <<>>
    /\ loaded_chunks = NewLoader.loaded_chunks
    /\ recently_loaded_chunks = NewLoader.recently_loaded_chunks
    /\ calls = <<>>
    /\ ret = NoRet
    /\ aborted = FALSE

InitPalette ==
    /\ palette \in {PaletteOfLen(n) : n \in 0..MaxPaletteLen}
    /\ width = NoWidth
    /\ IdleLoader
    /\ IdleVein
    /\ IdleRest

\* the width is computed, by Palette::get_elem_bit_size and by main.rs
ComputeWidth ==
    /\ width = NoWidth
    /\ width' = [elem |-> get_elem_bit_size(palette), by_id |-> by_id_width(palette)]
    /\ UNCHANGED <<palette, loaderVars, veinVars>>
    /\ UNCHANGED <<codecVars, areaVars, compVars>>

NextPalette == ComputeWidth

SpecPalette == InitPalette /\ [][NextPalette]_vars

----------------------------------------------------------------------------
(* Decoding a section.  The BlockStates array of the tag under test is made *)
(* by packing a list of ids at the palette's width, floor(64 / width) ids   *)
(* to a word from the least significant bit on; the bits of a word that     *)
(* are left over are all set to `pad`.                                      *)

PackBit(vals, w, pad, j, k) ==
    LET per == WORD_BITS \div w
        vi == (j - 1) * per + (k \div w) + 1
    IN  IF k >= per * w
        THEN pad
        ELSE IF vi > Len(vals) THEN 0 ELSE (vals[vi] \div (2 ^ (k % w))) % 2

PackByte(vals, w, pad, j, b) ==
    PackBit(vals, w, pad, j, 8 * b) + 2 * PackBit(vals, w, pad, j, 8 * b + 1)
        + 4 * PackBit(vals, w, pad, j, 8 * b + 2) + 8 * PackBit(vals, w, pad, j, 8 * b + 3)
        + 16 * PackBit(vals, w, pad, j, 8 * b + 4) + 32 * PackBit(vals, w, pad, j, 8 * b + 5)
        + 64 * PackBit(vals, w, pad, j, 8 * b + 6) + 128 * PackBit(vals, w, pad, j, 8 * b + 7)

Pack(vals, w, pad) ==
    LET per == WORD_BITS \div w
    IN  [j \in 1..((Len(vals) + per - 1) \div per) |->
            [b \in 1..WORD_BYTES |-> PackByte(vals, w, pad, j, b - 1)]]

\* the declared entries of a section palette: n names, the first one given
EntriesOfLen(n, first) ==
    [i \in 1..n |-> IF i = 1 THEN first ELSE StdPalette[2 + (i % 3)]]

CodecEntries ==
    {EntriesOfLen(n, AIR) : n \in {3, 16, 17, 40, 257}}
        \cup {EntriesOfLen(3, STONE), EntriesOfLen(17, DIAMOND)}

\* n ids, all below `size`
IdsBelow(n, size) == [i \in 1..n |-> (7 * i + 1) % size]

\* the same with the largest id of the width at one place
WithWideId(vals, w) ==
    [i \in DOMAIN vals |-> IF i = Min(5, Len(vals)) THEN 2 ^ w - 1 ELSE vals[i]]

\* the numbers of ids packed: one, a full word, a word and one id, a full
\* section, and two words more than a section
CodecLengths(w) ==
    LET per == WORD_BITS \div w
    IN  {1, per, per + 1, BLOCKS_PER_SECTION, BLOCKS_PER_SECTION + 2 * per}

CodecTag(entries, words) ==
    [Palette |-> entries, BlockStates |-> words, hasBlockStates |-> TRUE,
     Y |-> 0, hasY |-> TRUE]

CodecInput(entries, vals, w, pad) ==
    [tag |-> CodecTag(entries, Pack(vals, w, pad)),
     packed |-> [vals |-> vals, w |-> w, pad |-> pad]]

\* one id packed for a palette of three entries
SmallInput == CodecInput(EntriesOfLen(3, AIR), <<2>>, MIN_ELEM_BITS, 0)

\* how many ids are packed, whether the padding bits are set and whether an
\* id of full width is among them (the long lists come in two of the four
\* combinations)
CodecCases(w) ==
    {c \in [n : CodecLengths(w), pad : {0, 1}, wide : BOOLEAN] :
        c.n < BLOCKS_PER_SECTION \/ ((c.pad = 1) = ~c.wide)}

\* the tags under test, each with the ids packed into it; three of them lack
\* one of the tags BlockStates, Y and Palette
CodecInputs(entrySet) ==
    UNION {LET size == Len(PaletteFromNbt(entries))
               w == get_elem_bit_size(PaletteFromNbt(entries))
           IN  {CodecInput(entries,
                           IF c.wide THEN WithWideId(IdsBelow(c.n, size), w)
                                     ELSE IdsBelow(c.n, size),
                           w, c.pad) :
                    c \in CodecCases(w)} :
              entries \in entrySet}
        \cup {[SmallInput EXCEPT !.tag.hasBlockStates = FALSE],
              [SmallInput EXCEPT !.tag.hasY = FALSE],
              [SmallInput EXCEPT !.tag.Palette = <<>>]}

Undecoded == [done |-> FALSE, sec |-> NoSection]

NoVals == [width |-> 0, val |-> <<>>, vec |-> <<>>]

InitCodec ==
    /\ \E i \in CodecInputs(CodecEntries) :
           /\ section_nbt = i.tag
           /\ packed = i.packed
    /\ decoded = Undecoded
    /\ word_vals = NoVals
    /\ global_section = <<>>
    /\ IdleLoader
    /\ IdlePalette
    /\ IdleVein
    /\ IdleArea
    /\ IdleComp

\* ChunkSection::from_nbt is called on the tag
CodecFromNbt ==
    /\ ~decoded.done
    /\ \E x \in {-1, 0} :
           decoded' = [done |-> TRUE, sec |-> ChunkSectionFromNbt(section_nbt, x, 0)]
    /\ UNCHANGED <<section_nbt, packed, word_vals, global_section>>
    /\ UNCHANGED <<loaderVars, paletteVars, veinVars, areaVars, compVars>>

\* parse_blockstate_val is called on the first or the last word of the
\* array, at the width of the tag's palette
CodecParseWord ==
    /\ word_vals = NoVals
    /\ section_nbt.hasBlockStates
    /\ \E k \in {1, Len(section_nbt.BlockStates)} :
         \E w \in {get_elem_bit_size(PaletteFromNbt(section_nbt.Palette))} :
           word_vals' = [width |-> w, val |-> section_nbt.BlockStates[k],
                         vec |-> parse_blockstate_val(w, section_nbt.BlockStates[k])]
    /\ UNCHANGED <<section_nbt, packed, decoded, global_section>>
    /\ UNCHANGED <<loaderVars, paletteVars, veinVars, areaVars, compVars>>

\* positions inside the section, and one past its end
CodecLocals == {<<0, 0, 0>>, <<4, 0, 0>>, <<15, 15, 15>>, <<CHUNK_SIZE, 0, 0>>}

\* ChunkSection::get_block_at on the decoded section
CodecGetBlockAt ==
    /\ decoded.done
    /\ ~decoded.sec.none
    /\ ~aborted
    /\ \E p \in CodecLocals :
         \E val \in {get_block_at(decoded.sec, p[1], p[2], p[3])} :
           /\ ret' = [NoRet EXCEPT !.op = "get_block_at", !.local = p, !.val = val]
           /\ aborted' = (val = Panic)
    /\ UNCHANGED <<world, loaded_chunks, recently_loaded_chunks, calls>>
    /\ UNCHANGED <<codecVars, paletteVars, veinVars, areaVars, compVars>>

\* ChunkSection::into_iter on the decoded section: the expect() on get_state
\* panics when an id of the array has no palette entry
CodecIntoIter ==
    /\ decoded.done
    /\ ~decoded.sec.none
    /\ ~aborted
    /\ aborted' = \E index \in 0..(BLOCKS_PER_SECTION - 1) :
                      SectionItem(decoded.sec, index).blockstate = None
    /\ ret' = [NoRet EXCEPT !.op = "into_iter"]
    /\ UNCHANGED <<world, loaded_chunks, recently_loaded_chunks, calls>>
    /\ UNCHANGED <<codecVars, paletteVars, veinVars, areaVars, compVars>>

NextCodec == CodecFromNbt \/ CodecParseWord \/ CodecGetBlockAt \/ CodecIntoIter

SpecCodec == InitCodec /\ [][NextCodec]_vars

----------------------------------------------------------------------------
(* The ChunkSection of chunk.rs: a section is its array of ids into a       *)
(* global palette, a Palette that starts empty and gets the block names     *)
(* through add.  The array is kept as the function from the array positions *)
(* whose id is not 0 to their ids.                                          *)

\* Palette::add on a palette built by new() and add: the names are distinct
\* and `indices` gives each its position in `elements`
PaletteAdd(elements, name) ==
    IF \E i \in DOMAIN elements : elements[i] = name
    THEN [elements |-> elements,
          index |-> (CHOOSE i \in DOMAIN elements : elements[i] = name) - 1]
    ELSE [elements |-> Append(elements, name), index |-> Len(elements)]

RECURSIVE AddStates(_, _, _, _, _)
\* the global palette after the loop of get_blocks_in_chunk has added the
\* names of ids[lo..hi], split in halves to keep the evaluation shallow
AddStates(global, ids, chunk_section_palette, lo, hi) ==
    IF lo > hi
    THEN global
    ELSE IF lo = hi
    THEN PaletteAdd(global, get_state(chunk_section_palette, ids[lo])).elements
    ELSE CHOOSE out \in
             {AddStates(half, ids, chunk_section_palette, (lo + hi) \div 2 + 1, hi) :
                 half \in {AddStates(global, ids, chunk_section_palette,
                                     lo, (lo + hi) \div 2)}} : TRUE

\* get_blocks_in_chunk of chunk.rs: the loop panics (expect) at the first
\* id without a palette entry, with the names of the ids before it added to
\* the global palette; a name keeps the id its first add gave it, so every
\* position holds the index its name has in the palette the loop ends with
GlobalBlocksOf(ids, chunk_section_palette, global_palette, n) ==
    IF \E k \in 1..n : get_state(chunk_section_palette, ids[k]) = None
    THEN LET first == CHOOSE k \in 1..n :
                          /\ get_state(chunk_section_palette, ids[k]) = None
                          /\ \A j \in 1..(k - 1) :
                                 get_state(chunk_section_palette, ids[j]) # None
         IN  [panic |-> TRUE,
              global |-> AddStates(global_palette, ids, chunk_section_palette,
                                   1, first - 1),
              blocks |-> <<>>]
    ELSE CHOOSE out \in
             {[panic |-> FALSE, global |-> final,
               blocks |-> [i \in {k - 1 : k \in
                                    {j \in 1..n :
                                        PaletteAdd(final, get_state(chunk_section_palette,
                                                                    ids[j])).index # 0}} |->
                              PaletteAdd(final, get_state(chunk_section_palette,
                                                          ids[i + 1])).index]] :
                 final \in {AddStates(global_palette, ids, chunk_section_palette, 1, n)}} :
             TRUE

chunk_get_blocks_in_chunk(block_state_array, chunk_section_palette, global_palette) ==
    CHOOSE out \in
        {GlobalBlocksOf(ids, chunk_section_palette, global_palette,
                        Min(Len(ids), BLOCKS_PER_SECTION)) :
            ids \in {get_block_ids_in_chunk(block_state_array, chunk_section_palette)}} :
        TRUE

\* ChunkSection::from_nbt of chunk.rs: it returns a section for every tag;
\* without BlockStates the array is all 0 and the global palette untouched
chunk_from_nbt(nbt, global_palette) ==
    IF nbt.hasBlockStates
    THEN chunk_get_blocks_in_chunk(nbt.BlockStates, PaletteFromNbt(nbt.Palette),
                                   global_palette)
    ELSE [panic |-> FALSE, global |-> global_palette, blocks |-> <<>>]

\* ChunkSection::into_iter of chunk.rs, run to its end: the ChunkSectionBlock
\* of every array position, in order
chunk_into_iter(blocks) ==
    [k \in 1..BLOCKS_PER_SECTION |->
        [global_id |-> IF (k - 1) \in DOMAIN blocks THEN blocks[k - 1] ELSE 0,
         chunk_pos |-> get_coords_from_array_pos(k - 1)]]

SectionEntries == {EntriesOfLen(3, AIR), EntriesOfLen(3, STONE)}

\* the global palette before the section is read: new, or used before
GlobalPalettes == {<<>>, <<STONE>>, <<DIAMOND, AIR>>}

NoGlobalSection == [done |-> FALSE, blocks |-> <<>>]

InitSection ==
    /\ \E i \in CodecInputs(SectionEntries), g \in GlobalPalettes :
           /\ section_nbt = i.tag
           /\ packed = i.packed
           /\ palette = g
    /\ width = NoWidth
    /\ decoded = Undecoded
    /\ word_vals = NoVals
    /\ global_section = NoGlobalSection
    /\ IdleLoader
    /\ IdleVein
    /\ IdleArea
    /\ IdleComp

\* ChunkSection::from_nbt of chunk.rs is called on the tag, with `palette`
\* as the global palette
SectionGlobalFromNbt ==
    /\ ~global_section.done
    /\ ~aborted
    /\ \E r \in {chunk_from_nbt(section_nbt, palette)} :
           /\ global_section' = [done |-> TRUE, blocks |-> r.blocks]
           /\ palette' = r.global
           /\ aborted' = r.panic
    /\ UNCHANGED <<world, loaded_chunks, recently_loaded_chunks, calls, ret, width>>
    /\ UNCHANGED <<section_nbt, packed, decoded, word_vals>>
    /\ UNCHANGED <<veinVars, areaVars, compVars>>

\* the section chunk.rs's from_nbt returned is iterated to its end
SectionGlobalIntoIter ==
    /\ global_section.done
    /\ ~aborted
    /\ iterated = <<>>
    /\ iterated' = chunk_into_iter(global_section.blocks)
    /\ UNCHANGED <<loaderVars, paletteVars, veinVars, codecVars, compVars>>

NextSection == CodecFromNbt \/ SectionGlobalFromNbt \/ SectionGlobalIntoIter

SpecSection == InitSection /\ [][NextSection]_vars

----------------------------------------------------------------------------
(* DiamondVeinAnalyzer *)

Vein(blocks, location) == [blocks |-> blocks, location |-> location]

\* min_coord
min_coord(a, b) == IF a[1] < b[1] \/ a[2] < b[2] \/ a[3] < b[3] THEN a ELSE b

\* DiamondVeinAnalyzer::clean_found_veins: the filter keeps the positions
\* with both x and z below the given ones
clean_found_veins(fv, x, z) == {p \in fv : p[1] < x /\ p[3] < z}

\* an entry that grows by two
IncrementByTwo(map, key) ==
    [k \in DOMAIN map \cup {key} |->
        IF k = key THEN (IF key \in DOMAIN map THEN map[key] ELSE 0) + 2 ELSE map[k]]

\* *map.entry(key).or_insert(0) += 1
Increment(map, key) ==
    [k \in DOMAIN map \cup {key} |->
        IF k = key THEN (IF key \in DOMAIN map THEN map[key] ELSE 0) + 1 ELSE map[k]]

\* `v as u8`
AsU8(v) == v % 256

\* `v as i16`: the heights of the model lie within i16
AsI16(v) == v

\* diamond_count += 1 on a u8: at 255 the addition overflows, which panics
\* in a build with overflow checks and wraps to 0 in one without
U8Increment(v) == IF v < 255 THEN {v + 1} ELSE {0, -1}

(* explore_vein is recursive: a call on a diamond ore block adds it to the   *)
(* vein and calls itself on the 27 positions around it.  The recursion is   *)
(* kept here as the explicit call stack it builds: a frame <<x, y, z, k>>   *)
(* is a call on (x, y, z) that has added its block and is about to run      *)
(* iteration k of its loop (rx outermost, rz innermost: rx = k/9 - 1,       *)
(* ry = (k/3)%3 - 1, rz = k%3 - 1).  status is "run" while calls are        *)
(* pending, then what the outermost call returns: "some" (Some(vein)),      *)
(* "none" (None), or "panic" (a chunk load failed).  A None returned by any *)
(* call is returned by every caller at once (the ? operator).               *)

Exploration(status, l, vein, stack) ==
    [status |-> status, loader |-> l, vein |-> vein, stack |-> stack]

\* explore_vein after its point query q: the block is added and the call
\* enters its loop, or the call returns
ExploreQueried(m, q, x, y, z) ==
    IF q.panic
    THEN Exploration("panic", q.loader, m.vein, m.stack)
    ELSE IF q.val \in DIAMOND_ORES
    THEN Exploration("run", q.loader,
                     Vein(m.vein.blocks \cup {<<x, y, z>>},
                          min_coord(m.vein.location, <<x, y, z>>)),
                     Append(m.stack, <<x, y, z, 0>>))
    ELSE IF m.vein.blocks = {}
    THEN Exploration("none", q.loader, m.vein, m.stack)
    ELSE Exploration("run", q.loader, m.vein, m.stack)

\* an entry whose size cap lets a vein of MAX_VEIN_SIZE blocks grow
ExploreCallCapAbove(m, w, fv, x, y, z) ==
    IF Cardinality(m.vein.blocks) > MAX_VEIN_SIZE \/ <<x, y, z>> \in fv
    THEN Exploration("none", m.loader, m.vein, m.stack)
    ELSE IF <<x, y, z>> \in m.vein.blocks
    THEN m
    ELSE CHOOSE out \in {ExploreQueried(m, q, x, y, z) :
                            q \in {get_blockstate_at(m.loader, w, x, y, z)}} : TRUE

\* explore_vein from its entry: the size cap and found_veins reject, a block
\* already in the vein returns the vein, any other position is queried
ExploreCall(m, w, fv, x, y, z) ==
    IF Cardinality(m.vein.blocks) >= MAX_VEIN_SIZE \/ <<x, y, z>> \in fv
    THEN Exploration("none", m.loader, m.vein, m.stack)
    ELSE IF <<x, y, z>> \in m.vein.blocks
    THEN m
    ELSE CHOOSE out \in {ExploreQueried(m, q, x, y, z) :
                            q \in {get_blockstate_at(m.loader, w, x, y, z)}} : TRUE

\* one step of the pending calls: the innermost call runs the next iteration
\* of its loop, or its loop is over and it returns
ExploreStep(m, w, fv) ==
    IF m.status # "run"
    THEN m
    ELSE IF m.stack = <<>>
    THEN Exploration("some", m.loader, m.vein, m.stack)
    ELSE LET top == m.stack[Len(m.stack)]
             rest == SubSeq(m.stack, 1, Len(m.stack) - 1)
             k == top[4]
         IN  IF k = 27
             THEN IF m.vein.blocks = {}
                  THEN Exploration("none", m.loader, m.vein, m.stack)
                  ELSE Exploration("run", m.loader, m.vein, rest)
             ELSE ExploreCall(
                      Exploration("run", m.loader, m.vein,
                                  Append(rest, <<top[1], top[2], top[3], k + 1>>)),
                      w, fv,
                      top[1] + (k \div 9) - 1,
                      top[2] + ((k \div 3) % 3) - 1,
                      top[3] + (k % 3) - 1)

\* at most MAX_VEIN_SIZE calls enter their loop; each runs 27 iterations and
\* returns once, and the outermost return is one more step
ExploreFuel == MAX_VEIN_SIZE * 28 + 2

(* What the properties need to see of an exploration is kept next to it:    *)
(* depth, the largest number of explore_vein calls that were pending at     *)
(* once; steps, the steps taken; dead_ends, the calls whose point query     *)
(* found no diamond ore (another block, or no section); dead_end_kept,      *)
(* whether every one of them returned Some with the vein it was given.      *)
NoObservation == [depth |-> 0, steps |-> 0, dead_ends |-> 0, dead_end_kept |-> TRUE]

Observed(r, obs, depth, dead, kept) ==
    [status |-> r.status, loader |-> r.loader, vein |-> r.vein, stack |-> r.stack,
     depth |-> Max(obs.depth, depth),
     steps |-> obs.steps + 1,
     dead_ends |-> obs.dead_ends + (IF dead THEN 1 ELSE 0),
     dead_end_kept |-> obs.dead_end_kept /\ (dead => kept)]

\* the call explore_vein(x, y, z) made in state m returned r
ObserveCall(obs, m, r, w, fv, x, y, z) ==
    CHOOSE out \in
        {Observed(r, obs, Len(m.stack) + 1, dead, r.status = "run" /\ r.vein = m.vein) :
            dead \in {/\ Cardinality(m.vein.blocks) < MAX_VEIN_SIZE
                      /\ <<x, y, z>> \notin fv
                      /\ <<x, y, z>> \notin m.vein.blocks
                      /\ \E q \in {get_blockstate_at(m.loader, w, x, y, z)} :
                             ~q.panic /\ q.val \notin DIAMOND_ORES}} : TRUE

\* the step from m gave r
ObserveStep(m, r, w, fv) ==
    IF m.stack # <<>> /\ m.stack[Len(m.stack)][4] < 27
    THEN LET top == m.stack[Len(m.stack)]
             k == top[4]
         IN  ObserveCall(m, m, r, w, fv,
                         top[1] + (k \div 9) - 1,
                         top[2] + ((k \div 3) % 3) - 1,
                         top[3] + (k % 3) - 1)
    ELSE Observed(r, m, 0, FALSE, TRUE)

RECURSIVE ExploreRun(_, _, _, _)
\* n steps, split in halves to keep the evaluation shallow
ExploreRun(m, w, fv, n) ==
    IF m.status # "run"
    THEN m
    ELSE IF n <= 1
    THEN CHOOSE out \in {ObserveStep(m, r, w, fv) : r \in {ExploreStep(m, w, fv)}} : TRUE
    ELSE CHOOSE out \in {IF r.status # "run" THEN r ELSE ExploreRun(r, w, fv, n - n \div 2) :
                            r \in {ExploreRun(m, w, fv, n \div 2)}} : TRUE

\* DiamondVeinAnalyzer::explore_vein, called from analyze_chunk.  l is the
\* chunk loader, fv found_veins.
explore_vein(l, w, fv, vein, x, y, z) ==
    CHOOSE out \in
        {ExploreRun(ObserveCall(NoObservation, Exploration("run", l, vein, <<>>), m,
                                w, fv, x, y, z),
                    w, fv, ExploreFuel) :
            m \in {ExploreCall(Exploration("run", l, vein, <<>>), w, fv, x, y, z)}} : TRUE

\* Area::into_iter: z in the outer loop, x in the inner, both ascending
AreaWidthX(a) == Max(0, a[2] - a[1])

AreaWidthZ(a) == Max(0, a[4] - a[3])

\* a traversal with x in the outer loop
AreaIterXOuter(a) ==
    [i \in 1..(AreaWidthX(a) * AreaWidthZ(a)) |->
        <<a[1] + ((i - 1) \div AreaWidthZ(a)), a[3] + ((i - 1) % AreaWidthZ(a))>>]

AreaIter(a) ==
    [i \in 1..(AreaWidthX(a) * AreaWidthZ(a)) |->
        <<a[1] + ((i - 1) % AreaWidthX(a)), a[3] + ((i - 1) \div AreaWidthX(a))>>]

RECURSIVE SortedBetween(_, _, _)
\* the elements of a set S of integers within lo..hi, in ascending order
SortedBetween(S, lo, hi) ==
    IF S = {}
    THEN <<>>
    ELSE IF lo = hi
    THEN <<lo>>
    ELSE LET mid == (lo + hi) \div 2
         IN  SortedBetween({v \in S : v <= mid}, lo, mid)
                 \o SortedBetween({v \in S : v > mid}, mid + 1, hi)

\* the elements of a set of integers in ascending order
SortedSeq(S) ==
    IF S = {}
    THEN <<>>
    ELSE SortedBetween(S, CHOOSE v \in S : \A u \in S : v <= u,
                          CHOOSE v \in S : \A u \in S : v >= u)

\* ChunkSection::into_iter panics (expect) when an id has no palette entry
IntoIterPanics(sec) ==
    \/ get_state(sec.palette, 0) = None
    \/ \E index \in DOMAIN sec.blocks : get_state(sec.palette, sec.blocks[index]) = None

\* the array positions of a section whose block is a diamond ore, in the
\* order the section's iterator yields them
TargetsOf(section) ==
    LET candidates == IF get_state(section.palette, 0) \in DIAMOND_ORES
                      THEN 0..(CHUNK_SIZE * CHUNK_SIZE * CHUNK_SIZE - 1)
                      ELSE DOMAIN section.blocks
        hits == {i \in candidates : SectionItem(section, i).blockstate \in DIAMOND_ORES}
        order == SortedSeq(hits)
    IN  [k \in DOMAIN order |-> SectionItem(section, order[k]).global_pos]

\* `for block in section` restricted to the blocks that pass the
\* DIAMOND_ORES test: into_iter builds the whole list first, so it panics
\* before any block of the section is looked at
SectionTargets(section) ==
    IF IntoIterPanics(section)
    THEN [panic |-> TRUE, targets |-> <<>>]
    ELSE [panic |-> FALSE, targets |-> TargetsOf(section)]

RECURSIVE ConcatSections(_, _)
\* the targets of the sections in order, up to the first section whose
\* into_iter panics
ConcatSections(chunk, indices) ==
    IF indices = <<>>
    THEN [panic |-> FALSE, targets |-> <<>>]
    ELSE LET head == SectionTargets(chunk.sections[Head(indices)])
             rest == ConcatSections(chunk, Tail(indices))
         IN  IF head.panic
             THEN head
             ELSE [panic |-> rest.panic, targets |-> head.targets \o rest.targets]

\* `for section in chunk { for block in section {` restricted to the blocks
\* that pass the DIAMOND_ORES test: their global positions, in order, and
\* whether the loop ends in the panic of an into_iter
ChunkSeeds(chunk) == ConcatSections(chunk, SortedSeq(DOMAIN chunk.sections))

\* Area::get_positive_coords
get_positive_coords(a, chunk_x, chunk_z) == <<chunk_x - a[1], chunk_z - a[3]>>

White == <<255, 255, 255>>

\* ImageBuffer::from_pixel(width_x, width_z, white)
NewImage(a) ==
    [px \in (0..(AreaWidthX(a) - 1)) \X (0..(AreaWidthZ(a) - 1)) |-> White]

\* DiamondVeinAnalyzer::update_img.  For a chunk outside the area the u32
\* subtraction overflows or put_pixel is out of bounds: with or without
\* overflow checks the call panics exactly when the pixel is not in the image
update_img(img, a, chunk_x, chunk_z, count) ==
    LET xy == get_positive_coords(a, chunk_x, chunk_z)
        px == <<xy[1], AreaWidthZ(a) - xy[2] - 1>>
        brightness == Max(0, 255 - count * 16)
    IN  IF px \notin DOMAIN img
        THEN [panic |-> TRUE, img |-> img]
        ELSE [panic |-> FALSE, img |-> [img EXCEPT ![px] = <<0, 0, brightness>>]]

----------------------------------------------------------------------------
(* Area traversal *)

MaxAreaCoord == 2
MaxRestarts == 2

\* Area::new on every combination of bounds, the empty and the inverted
\* ranges included
AreaInputs ==
    {<<min_x, max_x, min_z, max_z>> :
        min_x \in -MaxAreaCoord..MaxAreaCoord, max_x \in -MaxAreaCoord..MaxAreaCoord,
        min_z \in -MaxAreaCoord..MaxAreaCoord, max_z \in -MaxAreaCoord..MaxAreaCoord}

InitArea ==
    /\ area \in AreaInputs
    /\ iterated = <<>>
    /\ chunk_idx = 0
    /\ seeds = <<>>
    /\ diamond_count = 0
    /\ found_veins = {}
    /\ vein_count_by_size = <<>>
    /\ vein_count_by_height = <<>>
    /\ diamonds_per_chunk = <<>>
    /\ diamond_img = <<>>
    /\ pc = "idle"
    /\ accepted = <<>>
    /\ last = NoSeed
    /\ IdleLoader
    /\ IdlePalette
    /\ IdleCodec
    /\ IdleComp

\* the area (a Copy value) is iterated from its start once more
AreaIntoIter ==
    /\ Len(iterated) < MaxRestarts
    /\ iterated' = Append(iterated, AreaIter(area))
    /\ UNCHANGED <<loaderVars, paletteVars, veinVars, codecVars, compVars>>

NextArea == AreaIntoIter

SpecArea == InitArea /\ [][NextArea]_vars

----------------------------------------------------------------------------
(* The worlds analyze() is run on: one cluster of n diamond ores, laid out   *)
(* row by row, ClusterWidth to a row, in a horizontal layer                 *)

MaxCluster == 17
ClusterWidth == 5

Cluster(n, origin) ==
    {<<origin[1] + (i % ClusterWidth), origin[2], origin[3] + (i \div ClusterWidth)>> :
        i \in 0..(n - 1)}

ClusterVox(n, origin) ==
    [p \in Cluster(n, origin) |-> IF (p[1] + p[3]) % 2 = 0 THEN 2 ELSE 3]

\* the same cluster with every row set one block further left than the row
\* before it
ShearedCluster(n, origin) ==
    {<<origin[1] + (i % ClusterWidth) - (i \div ClusterWidth), origin[2],
       origin[3] + (i \div ClusterWidth)>> : i \in 0..(n - 1)}

ShearedVox(n, origin) ==
    [p \in ShearedCluster(n, origin) |-> IF (p[1] + p[3]) % 2 = 0 THEN 2 ELSE 3]

\* a cluster inside chunk (0, 0); one inside chunk (-1, 0); one across the
\* border of the chunks (0, 0) and (1, 0); a sheared one inside chunk (0, 0)
VeinLayouts ==
    {[origin |-> <<2, 5, 2>>, coords |-> {<<0, 0>>}, area |-> <<0, 1, 0, 1>>,
      sheared |-> FALSE],
     [origin |-> <<-16, 5, 2>>, coords |-> {<<-1, 0>>, <<0, 0>>}, area |-> <<-1, 0, 0, 1>>,
      sheared |-> FALSE],
     [origin |-> <<14, 5, 2>>, coords |-> {<<0, 0>>, <<1, 0>>}, area |-> <<0, 2, 0, 1>>,
      sheared |-> FALSE],
     [origin |-> <<6, 5, 2>>, coords |-> {<<0, 0>>}, area |-> <<0, 1, 0, 1>>,
      sheared |-> TRUE]}

LayoutVox(n, lay) ==
    IF lay.sheared THEN ShearedVox(n, lay.origin) ELSE ClusterVox(n, lay.origin)

VeinSections == {0}

\* a chunk with more diamond ores than a u8 counts: a whole horizontal layer
\* of chunk (0, 0).  The chunks around it are in the world, only it is in
\* the area.
PlateVox == [p \in {<<x, 5, z>> : x \in 0..(CHUNK_SIZE - 1), z \in 0..(CHUNK_SIZE - 1)} |-> 2]

PlateWorld ==
    [vox |-> PlateVox, coords |-> {<<0, 0>>, <<1, 0>>, <<0, 1>>, <<1, 1>>},
     area |-> <<0, 1, 0, 1>>, sections |-> VeinSections]

\* two diamond ores in section 0 of chunk (0, 0) and one block whose id has
\* no palette entry, in section 0 or in section 1
BadIdWorlds ==
    {[vox |-> (<<2, 5, 2>> :> 2) @@ (<<3, 5, 2>> :> 3) @@ (<<9, y, 9>> :> 7),
      coords |-> {<<0, 0>>}, area |-> <<0, 1, 0, 1>>, sections |-> {0, 1}] :
        y \in {9, CHUNK_SIZE + 9}}

VeinWorlds ==
    {[vox |-> LayoutVox(n, lay), coords |-> lay.coords, area |-> lay.area,
      sections |-> VeinSections] :
        n \in 1..MaxCluster, lay \in VeinLayouts}
        \cup {PlateWorld} \cup BadIdWorlds

\* DiamondVeinAnalyzer::new
InitVein ==
    /\ \E wd \in VeinWorlds :
           /\ world = MakeWorld(wd.vox, wd.coords, wd.sections)
           /\ area = wd.area
           /\ diamond_img = NewImage(wd.area)
    /\ loaded_chunks = NewLoader.loaded_chunks
    /\ recently_loaded_chunks = NewLoader.recently_loaded_chunks
    /\ calls = <<>>
    /\ ret = NoRet
    /\ aborted = FALSE
    /\ IdlePalette
    /\ chunk_idx = 0
    /\ seeds = <<>>
    /\ diamond_count = 0
    /\ found_veins = {}
    /\ vein_count_by_size = <<>>
    /\ vein_count_by_height = <<>>
    /\ diamonds_per_chunk = <<>>
    /\ pc = "load"
    /\ accepted = <<>>
    /\ last = NoSeed
    /\ IdleRest

CurrentCoord == AreaIter(area)[chunk_idx + 1]

\* analyze(): the next iteration of the loop over the area starts; the chunk
\* is loaded and cloned, analyze_chunk starts on it
AnalyzeLoadChunk ==
    /\ pc = "load"
    /\ ~aborted
    /\ chunk_idx < Len(AreaIter(area))
    /\ LET r == get_or_load(Loader(loaded_chunks, recently_loaded_chunks), world,
                            CurrentCoord[1], CurrentCoord[2])
       IN  /\ loaded_chunks' = r.loader.loaded_chunks
           /\ recently_loaded_chunks' = r.loader.recently_loaded_chunks
           /\ aborted' = r.panic
           /\ pc' = IF r.panic THEN pc ELSE "scan"
           /\ seeds' = IF r.panic THEN seeds ELSE ChunkSeeds(r.chunk).targets
    /\ diamond_count' = 0
    /\ last' = NoSeed
    /\ UNCHANGED <<world, calls, ret, paletteVars, area, chunk_idx, found_veins,
                   vein_count_by_size, vein_count_by_height, diamonds_per_chunk,
                   diamond_img, accepted>>
    /\ UNCHANGED <<codecVars, areaVars, compVars>>

\* analyze_chunk: the loop reaches the next diamond ore block of the chunk
AnalyzeSeed ==
    /\ pc = "scan"
    /\ ~aborted
    /\ seeds # <<>>
    /\ \E seed \in {Head(seeds)} :
         \E r \in {explore_vein(Loader(loaded_chunks, recently_loaded_chunks), world,
                                found_veins, Vein({}, seed), seed[1], seed[2], seed[3])} :
           /\ loaded_chunks' = r.loader.loaded_chunks
           /\ recently_loaded_chunks' = r.loader.recently_loaded_chunks
           /\ found_veins' = IF r.status = "some"
                             THEN found_veins \cup r.vein.blocks
                             ELSE found_veins
           /\ vein_count_by_size' =
                  IF r.status = "some"
                  THEN Increment(vein_count_by_size, AsU8(Cardinality(r.vein.blocks)))
                  ELSE vein_count_by_size
           /\ vein_count_by_height' =
                  IF r.status = "some"
                  THEN Increment(vein_count_by_height, AsI16(r.vein.location[2]))
                  ELSE vein_count_by_height
           /\ last' = [kind |-> r.status, seed |-> seed, blocks |-> r.vein.blocks,
                       location |-> r.vein.location, depth |-> r.depth, steps |-> r.steps,
                       dead_ends |-> r.dead_ends, dead_end_kept |-> r.dead_end_kept]
           /\ accepted' = IF r.status = "some"
                          THEN Append(accepted, [blocks |-> r.vein.blocks,
                                                 location |-> r.vein.location,
                                                 chunk_idx |-> chunk_idx])
                          ELSE accepted
           /\ \E next \in U8Increment(diamond_count) :
                  /\ aborted' = (r.status = "panic" \/ next < 0)
                  /\ diamond_count' = IF r.status = "panic" \/ next < 0
                                      THEN diamond_count ELSE next
    /\ seeds' = Tail(seeds)
    /\ UNCHANGED <<world, calls, ret, paletteVars, area, chunk_idx, diamonds_per_chunk,
                   diamond_img, pc>>
    /\ UNCHANGED <<codecVars, areaVars, compVars>>

\* analyze(): analyze_chunk has returned; the chunk is counted, its pixel is
\* set and found_veins is cleaned
AnalyzeChunkDone ==
    /\ pc = "scan"
    /\ ~aborted
    /\ seeds = <<>>
    /\ ~ChunkSeeds(loaded_chunks[CurrentCoord]).panic
    /\ diamonds_per_chunk' = Increment(diamonds_per_chunk, diamond_count)
    /\ \E r \in {update_img(diamond_img, area, CurrentCoord[1], CurrentCoord[2],
                             diamond_count)} :
           /\ diamond_img' = r.img
           /\ aborted' = r.panic
           /\ LET chunk_pos == get_global_pos(loaded_chunks[CurrentCoord])
              IN  found_veins' = IF r.panic
                                 THEN found_veins
                                 ELSE clean_found_veins(found_veins,
                                                        chunk_pos[1], chunk_pos[2])
           /\ chunk_idx' = IF r.panic THEN chunk_idx ELSE chunk_idx + 1
           /\ pc' = IF r.panic THEN pc ELSE "load"
    /\ UNCHANGED <<world, loaded_chunks, recently_loaded_chunks, calls, ret,
                   paletteVars, area, seeds, diamond_count, vein_count_by_size,
                   vein_count_by_height, accepted, last>>
    /\ UNCHANGED <<codecVars, areaVars, compVars>>

\* analyze_chunk: the loop over the sections reaches a section whose
\* into_iter panics, after the diamond ores of the sections before it
AnalyzeIntoIterPanic ==
    /\ pc = "scan"
    /\ ~aborted
    /\ seeds = <<>>
    /\ ChunkSeeds(loaded_chunks[CurrentCoord]).panic
    /\ aborted' = TRUE
    /\ UNCHANGED <<world, loaded_chunks, recently_loaded_chunks, calls, ret,
                   paletteVars, veinVars>>
    /\ UNCHANGED <<codecVars, areaVars, compVars>>

NextVein == AnalyzeLoadChunk \/ AnalyzeSeed \/ AnalyzeChunkDone \/ AnalyzeIntoIterPanic

SpecVein == InitVein /\ [][NextVein]_vars

----------------------------------------------------------------------------
(* CompositionAnalyzer.  blockstate_map is a function from block names to   *)
(* counts, layers a function from the layer's y to the layer's composition  *)
(* (a function from block names to counts).                                 *)

\* Layer::get_count
LayerGetCount(composition, blockstate) ==
    IF blockstate \in DOMAIN composition THEN composition[blockstate] ELSE 0

\* HashMap::insert
MapInsert(map, key, value) ==
    [k \in DOMAIN map \cup {key} |-> IF k = key THEN value ELSE map[k]]

\* Layer::increment
LayerIncrement(composition, blockstate) ==
    MapInsert(composition, blockstate, LayerGetCount(composition, blockstate) + 1)

\* a Layers::increment that starts the count of a new layer at 0
LayersIncrementFromZero(ls, blockstate, layer) ==
    IF layer \in DOMAIN ls
    THEN MapInsert(ls, layer, LayerIncrement(ls[layer], blockstate))
    ELSE MapInsert(ls, layer, MapInsert(<<>>, blockstate, 0))

\* Layers::increment
LayersIncrement(ls, blockstate, layer) ==
    IF layer \in DOMAIN ls
    THEN MapInsert(ls, layer, LayerIncrement(ls[layer], blockstate))
    ELSE MapInsert(ls, layer, MapInsert(<<>>, blockstate, 1))

Counts(map, ls) == [blockstate_map |-> map, layers |-> ls]

\* CompositionAnalyzer::count_blockstate
count_blockstate(cnt, block) ==
    Counts(MapInsert(cnt.blockstate_map, block.blockstate,
                     LayerGetCount(cnt.blockstate_map, block.blockstate) + 1),
           LayersIncrement(cnt.layers, block.blockstate, block.global_pos[2]))

RECURSIVE CountRange(_, _, _, _)
\* count_blockstate on the blocks of the array indices lo..hi, in order
CountRange(cnt, sec, lo, hi) ==
    IF lo = hi
    THEN count_blockstate(cnt, SectionItem(sec, lo))
    ELSE CHOOSE out \in {CountRange(half, sec, (lo + hi) \div 2 + 1, hi) :
                            half \in {CountRange(cnt, sec, lo, (lo + hi) \div 2)}} : TRUE

\* CompositionAnalyzer::count_chunk_section
count_chunk_section(cnt, sec) == CountRange(cnt, sec, 0, BLOCKS_PER_SECTION - 1)

\* `for section in chunk`: the sections of a chunk, in ascending index order
ChunkSections(chunk) ==
    LET order == SortedSeq(DOMAIN chunk.sections)
    IN  [k \in DOMAIN order |-> chunk.sections[order[k]]]

\* the voxels of a folder for the composition analysis: in every section a
\* diamond ore at local (0, 0, 0), and `extra` stones from local (15, 15, 15)
\* downwards
CompVox(coords, sectionIndices, extra) ==
    LET ores == {<<c[1] * CHUNK_SIZE, si * CHUNK_SIZE, c[2] * CHUNK_SIZE>> :
                    c \in coords, si \in sectionIndices}
        stones == {<<c[1] * CHUNK_SIZE + 15, si * CHUNK_SIZE + 15 - e,
                     c[2] * CHUNK_SIZE + 15>> :
                      c \in coords, si \in sectionIndices, e \in 0..(extra - 1)}
    IN  [p \in ores \cup stones |-> IF p \in ores THEN 2 ELSE 1]

MaxExtra == 2

CompCoords == {<<0, 0>>, <<1, 0>>}

CompSectionSets == {{0}, {1}, {-1}, {0, 1}}

CompAreas == {<<0, 1, 0, 1>>, <<0, 2, 0, 1>>, <<1, 1, 0, 1>>}

\* CompositionAnalyzer::new, and the area analyze() is called on
InitComp ==
    /\ \E sectionIndices \in CompSectionSets, extra \in 0..MaxExtra :
           world = MakeWorld(CompVox(CompCoords, sectionIndices, extra), CompCoords,
                             sectionIndices)
    /\ area \in CompAreas
    /\ loaded_chunks = NewLoader.loaded_chunks
    /\ recently_loaded_chunks = NewLoader.recently_loaded_chunks
    /\ calls = <<>>
    /\ ret = NoRet
    /\ aborted = FALSE
    /\ blockstate_map = <<>>
    /\ layers = <<>>
    /\ sections_todo = <<>>
    /\ chunk_idx = 0
    /\ pc = "load"
    /\ seeds = <<>>
    /\ diamond_count = 0
    /\ found_veins = {}
    /\ vein_count_by_size = <<>>
    /\ vein_count_by_height = <<>>
    /\ diamonds_per_chunk = <<>>
    /\ diamond_img = <<>>
    /\ accepted = <<>>
    /\ last = NoSeed
    /\ IdlePalette
    /\ IdleCodec
    /\ IdleArea

\* analyze(): the next chunk of the area is loaded and cloned
CompLoadChunk ==
    /\ pc = "load"
    /\ ~aborted
    /\ chunk_idx < Len(AreaIter(area))
    /\ \E r \in {get_or_load(Loader(loaded_chunks, recently_loaded_chunks), world,
                             CurrentCoord[1], CurrentCoord[2])} :
           /\ loaded_chunks' = r.loader.loaded_chunks
           /\ recently_loaded_chunks' = r.loader.recently_loaded_chunks
           /\ aborted' = r.panic
           /\ sections_todo' = IF r.panic THEN <<>> ELSE ChunkSections(r.chunk)
           /\ pc' = IF r.panic THEN pc ELSE "count"
    /\ UNCHANGED <<world, calls, ret, blockstate_map, layers>>
    /\ UNCHANGED <<area, chunk_idx, seeds, diamond_count, found_veins, vein_count_by_size,
                   vein_count_by_height, diamonds_per_chunk, diamond_img, accepted, last>>
    /\ UNCHANGED <<paletteVars, codecVars, areaVars>>

\* analyze(): count_chunk_section on the next section of the chunk
CompCountSection ==
    /\ pc = "count"
    /\ ~aborted
    /\ sections_todo # <<>>
    /\ IF IntoIterPanics(Head(sections_todo))
       THEN /\ aborted' = TRUE
            /\ UNCHANGED <<blockstate_map, layers>>
       ELSE /\ aborted' = FALSE
            /\ \E cnt \in {count_chunk_section(Counts(blockstate_map, layers),
                                               Head(sections_todo))} :
                   /\ blockstate_map' = cnt.blockstate_map
                   /\ layers' = cnt.layers
    /\ sections_todo' = Tail(sections_todo)
    /\ UNCHANGED <<world, loaded_chunks, recently_loaded_chunks, calls, ret>>
    /\ UNCHANGED veinVars
    /\ UNCHANGED <<paletteVars, codecVars, areaVars>>

\* analyze(): the sections of the chunk are counted, the loop goes on
CompChunkDone ==
    /\ pc = "count"
    /\ ~aborted
    /\ sections_todo = <<>>
    /\ chunk_idx' = chunk_idx + 1
    /\ pc' = "load"
    /\ UNCHANGED <<loaderVars, paletteVars, codecVars, areaVars, compVars>>
    /\ UNCHANGED <<area, seeds, diamond_count, found_veins, vein_count_by_size,
                   vein_count_by_height, diamonds_per_chunk, diamond_img, accepted, last>>

NextComp == CompLoadChunk \/ CompCountSection \/ CompChunkDone

SpecComp == InitComp /\ [][NextComp]_vars

----------------------------------------------------------------------------
(* Claims about the cache *)

\* the index of the last call on coordinate c
LastAccess(c) == CHOOSE i \in DOMAIN calls : calls[i] = c /\ \A j \in DOMAIN calls : calls[j] = c => j <= i

\* C1: after get_or_load was called on MAX_LOADED_CHUNKS + k pairwise
\* distinct coordinates (k >= 1), starting from an empty loader, exactly
\* MAX_LOADED_CHUNKS chunks are cached and they are the MAX_LOADED_CHUNKS
\* most recently accessed coordinates.
C1_CacheBound ==
    (/\ ~aborted
     /\ Len(calls) > MAX_LOADED_CHUNKS
     /\ NumDistinct(calls) = Len(calls))
    => /\ Cardinality(DOMAIN loaded_chunks) = MAX_LOADED_CHUNKS
       /\ DOMAIN loaded_chunks =
              {calls[i] : i \in (Len(calls) - MAX_LOADED_CHUNKS + 1)..Len(calls)}

\* C2: after every get_or_load call the recency queue holds each cached
\* coordinate exactly once, holds no coordinate that is not cached, and is
\* ordered from least to most recently accessed.
C2_RecencyQueueInvariant ==
    (ret.op = "get_or_load" /\ ~aborted)
    => /\ Range(recently_loaded_chunks) = DOMAIN loaded_chunks
       /\ Len(recently_loaded_chunks) = Cardinality(DOMAIN loaded_chunks)
       /\ \A i, j \in DOMAIN recently_loaded_chunks :
              i < j => LastAccess(recently_loaded_chunks[i])
                           < LastAccess(recently_loaded_chunks[j])

\* C3: a get_or_load call that hits a cached coordinate leaves that
\* coordinate at the most-recently-used end of the recency queue (so that it
\* is not the next one evicted).
C3_HitMovesToBack ==
    (ret.op = "get_or_load" /\ ret.hit /\ ~aborted)
    => /\ recently_loaded_chunks # <<>>
       /\ recently_loaded_chunks[Len(recently_loaded_chunks)] = ret.coord

----------------------------------------------------------------------------
(* Claims about the point query *)

\* the chunk that owns a world position, and its section and local offset
OwnerCoord(p) == <<FloorChunkCoord(p[1]), FloorChunkCoord(p[3])>>

OwnerLocal(p) == <<p[1] % CHUNK_SIZE, p[2] % CHUNK_SIZE, p[3] % CHUNK_SIZE>>

OwnerSectionPresent(w, p) ==
    /\ OwnerCoord(p) \in DOMAIN w
    /\ FloorSectionIndex(p[2]) \in DOMAIN w[OwnerCoord(p)].sections

\* C7: for every chunk (cx, cz), every present section s and every local
\* offset, get_blockstate_at(cx*16+lx, s*16+ly, cz*16+lz) resolves to chunk
\* (cx, cz), section s, local (lx, ly, lz) and returns the type that section
\* iteration yields for that global position.
C7_PointQueryAgreesWithIteration ==
    (ret.op = "get_blockstate_at" /\ OwnerSectionPresent(world, ret.pos))
    => /\ ~aborted
       /\ ret.coord = OwnerCoord(ret.pos)
       /\ ret.section_index = FloorSectionIndex(ret.pos[2])
       /\ ret.local = OwnerLocal(ret.pos)
       /\ IterBlockstatesAt(world, ret.pos) = {ret.val}

\* C8: when the chunk owning the queried position exists but has no section
\* at the queried vertical index, get_blockstate_at returns None and does
\* not abort.
C8_AbsentSectionIsNone ==
    (/\ ret.op = "get_blockstate_at"
     /\ OwnerCoord(ret.pos) \in DOMAIN world
     /\ ~OwnerSectionPresent(world, ret.pos))
    => /\ ~aborted
       /\ ret.val = None

\* the value a point query returns from a given cache content
QueryVal(lc, rlc, p) == get_blockstate_at(Loader(lc, rlc), world, p[1], p[2], p[3]).val

\* C9: a point query that misses on chunk B loads B and leaves every cached
\* chunk A as it was: A's entry is unchanged, A stays cached while the cache
\* is below its capacity, and a query into A returns what it returned before.
C9_MissLeavesCachedChunks ==
    [][(ret'.op = "get_blockstate_at" /\ ~ret'.hit /\ ~aborted')
       => /\ ret'.coord \notin DOMAIN loaded_chunks
          /\ ret'.coord \in DOMAIN loaded_chunks'
          /\ loaded_chunks'[ret'.coord] = world[ret'.coord]
          /\ Cardinality(DOMAIN loaded_chunks) < MAX_LOADED_CHUNKS
                 => DOMAIN loaded_chunks \subseteq DOMAIN loaded_chunks'
          /\ \A a \in DOMAIN loaded_chunks \cap DOMAIN loaded_chunks' :
                 /\ loaded_chunks'[a] = loaded_chunks[a]
                 /\ \A p \in QueryPositions :
                        <<QueryChunkCoord(p[1]), QueryChunkCoord(p[3])>> = a
                        => QueryVal(loaded_chunks', recently_loaded_chunks', p)
                               = QueryVal(loaded_chunks, recently_loaded_chunks, p)
      ]_vars

\* a query into chunk B missed while another chunk was cached, and returned a block
C9_Witness ==
    /\ ret.op = "get_blockstate_at"
    /\ ~ret.hit
    /\ ~aborted
    /\ ret.val \in {STONE, DIAMOND, DEEPSLATE_DIAMOND}
    /\ Cardinality(DOMAIN loaded_chunks) >= 2

----------------------------------------------------------------------------
(* Claims about the flood fill *)

\* every diamond ore block of the world
WorldTargets(w) == UNION {Range(ChunkSeeds(w[c]).targets) : c \in DOMAIN w}

Abs(v) == IF v < 0 THEN -v ELSE v

\* two distinct positions that differ by at most one along every axis
Adjacent(p, q) ==
    /\ p # q
    /\ Abs(p[1] - q[1]) <= 1
    /\ Abs(p[2] - q[2]) <= 1
    /\ Abs(p[3] - q[3]) <= 1

RECURSIVE ComponentFrom(_, _)
ComponentFrom(S, T) ==
    LET more == {q \in T \ S : \E p \in S : Adjacent(p, q)}
    IN  IF more = {} THEN S ELSE ComponentFrom(S \cup more, T)

\* the connected cluster of diamond ore blocks that holds p
Component(w, p) == ComponentFrom({p}, WorldTargets(w))

InOneChunk(S) == \A p, q \in S : OwnerCoord(p) = OwnerCoord(q)

\* the count a histogram holds for a key
Count(map, key) == IF key \in DOMAIN map THEN map[key] ELSE 0

\* analyze_chunk is about to process the seed Head(seeds)
AtSeed == pc = "scan" /\ ~aborted /\ seeds # <<>>

\* positions whose neighbours all lie at coordinates >= 0 and below y = 127,
\* where truncating and flooring division agree and `as i8` keeps y
AwayFromWrap(S) == \A p \in S : p[1] > 0 /\ p[3] > 0 /\ p[2] > 0 /\ p[2] < 127

\* C4: when the scan seeds on a connected cluster of exactly MAX_VEIN_SIZE
\* (16) diamond ores, none of them in found_veins, explore_vein returns the
\* vein and vein_count_by_size is incremented at key 16.  (Stated for the
\* clusters the point query reads exactly, so that C7 plays no part.)
C4_FullSizeVeinAccepted ==
    [][(/\ AtSeed
        /\ Cardinality(Component(world, Head(seeds))) = MAX_VEIN_SIZE
        /\ AwayFromWrap(Component(world, Head(seeds)))
        /\ Component(world, Head(seeds)) \cap found_veins = {})
       => /\ last'.kind = "some"
          /\ last'.blocks = Component(world, Head(seeds))
          /\ Count(vein_count_by_size', MAX_VEIN_SIZE)
                 = Count(vein_count_by_size, MAX_VEIN_SIZE) + 1
      ]_vars

\* C5: every seeding on a member of a connected cluster of 17 diamond ores
\* that lies inside one chunk is rejected: it changes neither histogram nor
\* found_veins, and it adds one to the chunk's seed count.
C5_OversizeVeinRejected ==
    [][(/\ AtSeed
        /\ Cardinality(Component(world, Head(seeds))) = MAX_VEIN_SIZE + 1
        /\ InOneChunk(Component(world, Head(seeds))))
       => /\ last'.kind = "none"
          /\ found_veins' = found_veins
          /\ vein_count_by_size' = vein_count_by_size
          /\ vein_count_by_height' = vein_count_by_height
          /\ diamond_count' = diamond_count + 1
      ]_vars

\* C6: a seed that belongs to a vein accepted in an earlier chunk of the
\* traversal (clean_found_veins has run since), whose location lies strictly
\* left of the chunk now scanned, is rejected: the vein is not found again.
C6_NoRediscovery ==
    [][(/\ AtSeed
        /\ \E i \in DOMAIN accepted :
               /\ Head(seeds) \in accepted[i].blocks
               /\ accepted[i].chunk_idx < chunk_idx
               /\ accepted[i].location[1] < CurrentCoord[1] * CHUNK_SIZE)
       => /\ last'.kind = "none"
          /\ accepted' = accepted
          /\ vein_count_by_size' = vein_count_by_size
      ]_vars

----------------------------------------------------------------------------
(* Claims about the palette *)

\* C10: the width is 4 for every palette size from 1 to 16 (and for an empty
\* palette), 5 for 17, 8 for 256 and 9 for 257; it is never below 4, and
\* above 16 entries it is the least k with 2^k >= size, i.e. ceil(log2(size)).
C10_BitWidth ==
    width # NoWidth
    => LET n == Len(palette)
           w == width.elem
       IN  /\ width.by_id = w
           /\ w >= 4
           /\ n <= 16 => w = 4
           /\ n = 17 => w = 5
           /\ n = 256 => w = 8
           /\ n = 257 => w = 9
           /\ n > 16 => 2 ^ w >= n /\ 2 ^ (w - 1) < n

\* the width of a palette of 257 entries was computed
C10_Witness ==
    /\ Len(palette) = 257
    /\ width # NoWidth
    /\ width.elem = 9

----------------------------------------------------------------------------
(* Claims about the block codec *)

\* bit k of a 64-bit word, counted from its least significant bit
WordBit(val, k) == (val[k \div 8 + 1] \div (2 ^ (k % 8))) % 2

RECURSIVE BitsValue(_, _, _)
\* the number whose binary digits are the n bits of the word from bit lo on
BitsValue(val, lo, n) ==
    IF n = 0 THEN 0 ELSE WordBit(val, lo) + 2 * BitsValue(val, lo + 1, n - 1)

\* C11: decoding one 64-bit word at width w yields exactly floor(64 / w)
\* values, the i-th (from 0) being the bits [i*w, (i+1)*w) of the word counted
\* from the least significant bit; the bits left over at the top of the word
\* are in no value.
C11_WordPadding ==
    word_vals # NoVals
    => /\ Len(word_vals.vec) = WORD_BITS \div word_vals.width
       /\ \A i \in DOMAIN word_vals.vec :
              word_vals.vec[i]
                  = BitsValue(word_vals.val, (i - 1) * word_vals.width, word_vals.width)

\* a word with bits set in its padding was decoded at width 5 into 12 values
C11_Witness ==
    /\ word_vals # NoVals
    /\ word_vals.width = 5
    /\ Len(word_vals.vec) = 12
    /\ BitsValue(word_vals.val, 60, 4) = 15
    /\ \E i \in DOMAIN word_vals.vec : word_vals.vec[i] # 0

\* the id the decoded section holds at an array index
DecodedId(sec, index) == IF index \in DOMAIN sec.blocks THEN sec.blocks[index] ELSE 0

\* the ids of the tag's array all have a palette entry
IdsInPalette ==
    \A i \in 1..Min(Len(packed.vals), BLOCKS_PER_SECTION) :
        packed.vals[i] < Len(PaletteFromNbt(section_nbt.Palette))

\* C12: when a list of ids, all below the palette size, is packed at the
\* palette's width with per-word padding, ChunkSection::from_nbt decodes a
\* grid of 4096 entries whose entry i is the i-th id packed; ids past the
\* 4096th are ignored and the entries the list does not reach are 0.
C12_CodecRoundTrip ==
    [][(/\ ~decoded.done
        /\ decoded'.done
        /\ section_nbt.hasBlockStates /\ section_nbt.hasY
        /\ IdsInPalette)
       => /\ ~decoded'.sec.none
          /\ DOMAIN decoded'.sec.blocks \subseteq 0..(BLOCKS_PER_SECTION - 1)
          /\ \A index \in 0..(BLOCKS_PER_SECTION - 1) :
                 DecodedId(decoded'.sec, index)
                     = IF index < Len(packed.vals) THEN packed.vals[index + 1] ELSE 0
      ]_vars

\* an array of more than 4096 ids at width 5, with the padding bits set, was decoded
C12_Witness ==
    /\ decoded.done
    /\ ~decoded.sec.none
    /\ IdsInPalette
    /\ packed.w = 5
    /\ packed.pad = 1
    /\ Len(packed.vals) > BLOCKS_PER_SECTION
    /\ DecodedId(decoded.sec, BLOCKS_PER_SECTION - 1) = packed.vals[BLOCKS_PER_SECTION]
    /\ DecodedId(decoded.sec, BLOCKS_PER_SECTION - 1) # 0

\* C13: the palette of a section decoded from a non-empty entry list has air
\* at id 0; when the first declared entry is not air, the i-th declared entry
\* (from 0) is found at id i + 1.
C13_PaletteAirAtZero ==
    (decoded.done /\ ~decoded.sec.none /\ section_nbt.Palette # <<>>)
    => /\ get_state(decoded.sec.palette, 0) = AIR
       /\ section_nbt.Palette[1] # AIR
              => \A i \in DOMAIN section_nbt.Palette :
                     get_state(decoded.sec.palette, i) = section_nbt.Palette[i]

\* C14: a tag whose array holds an id without a palette entry is never
\* decoded into a section (decoding aborts), and get_block_at on a decoded
\* section never returns None.
C14_BadIdFatalAtDecode ==
    /\ (decoded.done /\ section_nbt.hasBlockStates /\ section_nbt.hasY /\ ~IdsInPalette)
           => decoded.sec.none
    /\ ret.op = "get_block_at" => ret.val # None

----------------------------------------------------------------------------
(* Claims about failing loads *)

\* C15: get_or_load on a coordinate whose region file is absent, or whose
\* region lacks the chunk, aborts the run, and the coordinate is neither in
\* loaded_chunks nor in the recency queue afterwards.
C15_MissingDataIsFatal ==
    (ret.op = "get_or_load" /\ ret.coord \notin DOMAIN world)
    => /\ aborted
       /\ ret.coord \notin DOMAIN loaded_chunks
       /\ ret.coord \notin Range(recently_loaded_chunks)

\* with a chunk cached, get_or_load was called on a chunk its region lacks
C15_Witness ==
    /\ ret.op = "get_or_load"
    /\ ret.coord \notin DOMAIN world
    /\ HasRegion(world, ret.coord[1], ret.coord[2])
    /\ aborted
    /\ loaded_chunks # <<>>

----------------------------------------------------------------------------
(* Claims about the area traversal *)

\* the chunk coordinates of the rectangle [minX, maxX) x [minZ, maxZ)
Rectangle(a) == {c \in (a[1]..(a[2] - 1)) \X (a[3]..(a[4] - 1)) : TRUE}

\* C16: iterating an Area yields every chunk coordinate of its rectangle
\* exactly once, rows of ascending z, ascending x within a row:
\* (maxX-minX)*(maxZ-minZ) coordinates, none when a range is empty, and the
\* same sequence on every restart.
C16_AreaTraversalOrder ==
    \A r \in DOMAIN iterated :
        LET out == iterated[r]
        IN  /\ Range(out) = Rectangle(area)
            /\ Len(out) = Cardinality(Rectangle(area))
            /\ Len(out) = IF area[2] <= area[1] \/ area[4] <= area[3]
                          THEN 0
                          ELSE (area[2] - area[1]) * (area[4] - area[3])
            /\ \A i, j \in DOMAIN out :
                   i < j => \/ out[i][2] < out[j][2]
                            \/ out[i][2] = out[j][2] /\ out[i][1] < out[j][1]
            /\ out = iterated[1]

\* an area of three columns and two rows was iterated twice
C16_Witness ==
    /\ area = <<-1, 2, -2, 0>>
    /\ Len(iterated) = 2
    /\ iterated[2] = <<<<-1, -2>>, <<0, -2>>, <<1, -2>>, <<-1, -1>>, <<0, -1>>, <<1, -1>>>>

----------------------------------------------------------------------------
(* Claims about the vein location *)

\* p comes before q in the lexicographic order of (x, y, z)
LexLess(p, q) ==
    \/ p[1] < q[1]
    \/ p[1] = q[1] /\ p[2] < q[2]
    \/ p[1] = q[1] /\ p[2] = q[2] /\ p[3] < q[3]

LexMin(S) == CHOOSE p \in S : \A q \in S : p = q \/ LexLess(p, q)

\* C17: the location of the vein that explore_vein built (accepted, or cut
\* off by the size cap) is the minimum of the vein's member positions in the
\* lexicographic order of (x, y, z).
C17_LocationIsLexMin ==
    last.blocks # {} => last.location = LexMin(last.blocks)

----------------------------------------------------------------------------
(* Claims about a miss and about pruning *)

\* C19: when get_or_load(c) misses, on return c is cached, c is the last
\* (most recently used) element of the recency queue, and the cache holds at
\* most MAX_LOADED_CHUNKS chunks.
C19_MissPostcondition ==
    (ret.op = "get_or_load" /\ ~ret.hit /\ ~aborted)
    => /\ ret.coord \in DOMAIN loaded_chunks
       /\ recently_loaded_chunks # <<>>
       /\ recently_loaded_chunks[Len(recently_loaded_chunks)] = ret.coord
       /\ Cardinality(DOMAIN loaded_chunks) <= MAX_LOADED_CHUNKS

\* C20: when analyze() has scanned a chunk and calls clean_found_veins with
\* the chunk's block position (x, z), exactly the positions with both
\* coordinates strictly below x and z leave found_veins; every other
\* position, those found in the chunk just scanned among them, stays.
C20_PruningDirection ==
    [][(pc = "scan" /\ pc' = "load")
       => found_veins' = found_veins \ {p \in found_veins :
                                           /\ p[1] < CurrentCoord[1] * CHUNK_SIZE
                                           /\ p[3] < CurrentCoord[2] * CHUNK_SIZE}
      ]_vars

----------------------------------------------------------------------------
(* Claims about the composition analysis *)

\* the sections count_chunk_section has been called on so far: every section
\* of the chunks before chunk_idx, and of the current chunk those that are no
\* longer to do
CountedSections ==
    {cs \in UNION {{<<c, si>> : si \in DOMAIN world[c].sections} :
                      c \in {AreaIter(area)[k] : k \in 1..chunk_idx}} : TRUE}
        \cup IF pc = "count"
             THEN {<<CurrentCoord, si>> :
                      si \in {i \in DOMAIN world[CurrentCoord].sections :
                                 \A k \in DOMAIN sections_todo :
                                     sections_todo[k].pos[2] # i}}
             ELSE {}

\* the voxels with a non-zero id of the counted sections: <<chunk, section
\* index, array index>>
CountedVoxels ==
    UNION {{<<cs[1], cs[2], i>> : i \in DOMAIN world[cs[1]].sections[cs[2]].blocks} :
              cs \in CountedSections}

VoxelName(v) ==
    get_state(world[v[1]].sections[v[2]].palette, world[v[1]].sections[v[2]].blocks[v[3]])

\* the layer of a voxel: section index * 16 + local y
VoxelLayer(v) == v[2] * CHUNK_SIZE + v[3] \div (CHUNK_SIZE * CHUNK_SIZE)

\* how many counted voxels of layer y have the name t
VoxelsIn(y, t) ==
    LET named == Cardinality({v \in CountedVoxels : VoxelLayer(v) = y /\ VoxelName(v) = t})
        stored == Cardinality({v \in CountedVoxels : VoxelLayer(v) = y})
        covering == Cardinality({cs \in CountedSections :
                                    y \div CHUNK_SIZE = cs[2]})
    IN  IF t = AIR THEN covering * CHUNK_SIZE * CHUNK_SIZE - stored ELSE named

CompLayers == (-CHUNK_SIZE)..(2 * CHUNK_SIZE - 1)

RECURSIVE SumLayers(_, _, _)
SumLayers(ls, ys, t) ==
    IF ys = {}
    THEN 0
    ELSE LET y == CHOOSE v \in ys : TRUE
         IN  LayerGetCount(ls[y], t) + SumLayers(ls, ys \ {y}, t)

\* C18: after every section counted, each layer y holds for each type the
\* number of voxels of that type at y = section_index*16 + local y among the
\* sections counted (each voxel once), no other layer has counts, and the
\* global count of each type is the sum of its layer counts.
C18_CompositionCounting ==
    ~aborted
    => /\ \A y \in CompLayers, t \in Range(StdPalette) :
              LayerGetCount(IF y \in DOMAIN layers THEN layers[y] ELSE <<>>, t)
                  = VoxelsIn(y, t)
       /\ DOMAIN layers \subseteq CompLayers
       /\ \A t \in Range(StdPalette) \cup DOMAIN blockstate_map :
              LayerGetCount(blockstate_map, t) = SumLayers(layers, DOMAIN layers, t)

\* analyze() has run over one chunk whose only section, at index 1, is air
\* but for a diamond ore at local (0, 0, 0): diamond_ore is counted once, at
\* layer 16, and air 4095 times
C18_Witness ==
    /\ pc = "load"
    /\ ~aborted
    /\ area = <<0, 1, 0, 1>>
    /\ chunk_idx = 1
    /\ DOMAIN world[<<0, 0>>].sections = {1}
    /\ DOMAIN blockstate_map = {AIR, DIAMOND}
    /\ blockstate_map[DIAMOND] = 1
    /\ blockstate_map[AIR] = BLOCKS_PER_SECTION - 1
    /\ layers[CHUNK_SIZE][DIAMOND] = 1

----------------------------------------------------------------------------
\* C24: every run of explore_vein returns (Some, None or a fatal error) within
\* the steps MAX_VEIN_SIZE looping calls can take; at no time are more than
\* MAX_VEIN_SIZE + 1 calls of it pending, and the vein it builds never has
\* more than MAX_VEIN_SIZE members
C24_BoundedExploration ==
    last # NoSeed =>
        /\ last.kind \in {"some", "none", "panic"}
        /\ last.steps <= ExploreFuel
        /\ last.depth <= MAX_VEIN_SIZE + 1
        /\ Cardinality(last.blocks) <= MAX_VEIN_SIZE

\* an exploration that filled the vein to the cap with every call nested in
\* the one before it
C24_Witness ==
    /\ last.kind = "none"
    /\ Cardinality(last.blocks) = MAX_VEIN_SIZE
    /\ last.depth = MAX_VEIN_SIZE + 1

\* C27: a call of explore_vein whose point query finds a block that is no
\* diamond ore, or no section, returns Some with the members and the
\* location of the vein it was given: it rejects nothing
C27_DeadEndKeepsVein == last.dead_ends > 0 => last.dead_end_kept

\* analyze_chunk processes the seed Head(seeds) in this step
SeedStep == AtSeed /\ seeds' = Tail(seeds)

\* map' is map with the count at key raised by one
RaisedAt(map, mapAfter, key) ==
    \A k \in DOMAIN map \cup DOMAIN mapAfter \cup {key} :
        Count(mapAfter, k) = Count(map, k) + (IF k = key THEN 1 ELSE 0)

RECURSIVE MapTotal(_)
\* the sum of the counts of a histogram
MapTotal(map) ==
    IF DOMAIN map = {}
    THEN 0
    ELSE LET k == CHOOSE k \in DOMAIN map : TRUE
         IN  map[k] + MapTotal([j \in DOMAIN map \ {k} |-> map[j]])

\* C21: when the exploration of a seed returns None, found_veins and both
\* vein histograms stay as they were, the run goes on, and of the statistics
\* only the chunk's seed counter changes, by one
C21_RejectionLeavesStatistics ==
    [][(SeedStep /\ last'.kind = "none") =>
           /\ found_veins' = found_veins
           /\ vein_count_by_size' = vein_count_by_size
           /\ vein_count_by_height' = vein_count_by_height
           /\ diamonds_per_chunk' = diamonds_per_chunk
           /\ ~aborted'
           /\ diamond_count' = diamond_count + 1]_vars

\* C22: when the exploration of a seed returns Some(vein), the vein's
\* location is in found_veins afterwards, vein_count_by_size is raised by one
\* at the number of blocks of the vein and nowhere else, vein_count_by_height
\* by one at the y of the location and nowhere else; the two histograms
\* always sum to the number of veins accepted so far
C22_AcceptanceEffects ==
    [][/\ (SeedStep /\ last'.kind = "some") =>
              /\ last'.location \in found_veins'
              /\ RaisedAt(vein_count_by_size, vein_count_by_size',
                          Cardinality(last'.blocks))
              /\ RaisedAt(vein_count_by_height, vein_count_by_height',
                          last'.location[2])
       /\ MapTotal(vein_count_by_size') = Len(accepted')
       /\ MapTotal(vein_count_by_height') = Len(accepted')]_vars

\* a vein of 15 blocks was accepted and is in both histograms
C22_Witness ==
    /\ last.kind = "some"
    /\ Cardinality(last.blocks) = MAX_VEIN_SIZE - 1
    /\ last.location \in found_veins
    /\ Count(vein_count_by_size, MAX_VEIN_SIZE - 1) = 1
    /\ Count(vein_count_by_height, last.location[2]) = 1

\* C23: the blocks of an accepted vein are the diamond ore blocks connected
\* to the seed through steps to one of the 26 neighbours, all of them and no
\* other position
C23_VeinIsComponent ==
    last.kind = "some" => last.blocks = Component(world, last.seed)

\* the diamond ore blocks of the chunk analyze_chunk is working on
TargetsOfCurrentChunk == Len(ChunkSeeds(world[CurrentCoord]).targets)

\* C25: analyze_chunk gets through every seed of a chunk, however many, and
\* the chunk is then counted in diamonds_per_chunk at the number of diamond
\* ore blocks it holds, and at no other key
C25_SeedCountExact ==
    [][/\ SeedStep => (~aborted' \/ last'.kind = "panic")
       /\ (pc = "scan" /\ pc' = "load") =>
              RaisedAt(diamonds_per_chunk, diamonds_per_chunk', TargetsOfCurrentChunk)]_vars

\* C26: from a section tag without BlockStates no section is made:
\* ChunkSection::from_nbt of chunk_section.rs returns None for it, and what
\* that of chunk.rs returns yields no block when it is iterated
C26_AbsentArrayOmitted ==
    ~section_nbt.hasBlockStates =>
        /\ decoded.done => decoded.sec.none
        /\ iterated = <<>>

====
